---- MODULE Spec2Model ----
(***************************************************************************)
(* Pomodoro timer: the session/timer state machine of the App component   *)
(* (work countdown, pause/resume, manual completion, break countdown),    *)
(* its history table (edit, save, delete) and timeline blocks, the         *)
(* helpers of lib/timer.ts, and the logs and settings of lib/storage.ts    *)
(* with the effects that save them.                                        *)
(*                                                                         *)
(* Time.  Date.now() is a millisecond clock.  The model's clock counts     *)
(* units of 1000/UnitsPerSec milliseconds, so one second is UnitsPerSec    *)
(* units and "x * 1000" of the source reads "x * UnitsPerSec" here.        *)
(* Timestamps (Date objects, ISO strings) are carried as the instant they  *)
(* denote; toISOString()/new Date(iso) are lossless on such instants.      *)
(*                                                                         *)
(* React.  A handler, the render it causes and the effects of that render  *)
(* form one step: effects are flushed before the next event is handled.    *)
(* Handlers are modelled as callable in every state; their guards are the  *)
(* conditions and early returns of their code.                             *)
(***************************************************************************)
EXTENDS Integers, Sequences, FiniteSets, TLC

\* ------------------------------------------------------------------ bounds
\* clock units per second
UnitsPerSec == 2
\* clampMinutes is tried on every tenth within this many minutes of 0 and of 180
ClampSpan == 6
\* the clock stops advancing after this many seconds
MaxNowSec == 100
\* no new work session is started once this many have been recorded
MaxLogs == 1

\* assignLanes is tried on every list of at most this many records ...
MaxRecs == 3
\* ... whose start and end instants lie in 0 .. LaneSpan
LaneSpan == 4

\* the persisted log array holds at most this many entries
MaxStored == 2

\* a launch finds at most this many records of earlier launches
MaxOld == 2

\* --------------------------------------------------------------- constants
MIN_MINUTES == 0
MAX_MINUTES == 180
DEFAULT_MINUTES == 25
SEC_PER_MIN == 60
NoDeadline == -1
DEFAULT_SET_MINUTES == 25
COMPACT_THRESHOLD_MINUTES == 30
DEFAULT_SOUND_VOLUME == 120
MAX_SOUND_VOLUME == 200
DEFAULT_SOUND_TYPE == "chime"

Last(seq) == seq[Len(seq)]
Min(a, b) == IF a <= b THEN a ELSE b
Max(a, b) == IF a >= b THEN a ELSE b

\* Math.ceil(a / b) for b > 0 (\div rounds towards minus infinity)
MathCeilDiv(a, b) == -((-a) \div b)

\* A JavaScript number: a finite value in tenths, or a non-finite value.
Fin(tenths) == [kind |-> "finite", tenths |-> tenths]
NaN == [kind |-> "NaN", tenths |-> 0]
PosInf == [kind |-> "Infinity", tenths |-> 0]
NegInf == [kind |-> "-Infinity", tenths |-> 0]

\* Math.round of a value given in tenths: floor(x + 0.5)
MathRound(tenths) == (tenths + 5) \div 10

\* defect variant: truncates instead of rounding
clampMinutes_floor(value) ==
  IF value.kind # "finite" THEN DEFAULT_MINUTES
  ELSE Min(MAX_MINUTES, Max(MIN_MINUTES, value.tenths \div 10))

clampMinutes(value) ==
  IF value.kind # "finite" THEN DEFAULT_MINUTES
  ELSE Min(MAX_MINUTES, Max(MIN_MINUTES, MathRound(value.tenths)))

toBreakSeconds(plannedMinutes) ==
  Max(1, (plannedMinutes * SEC_PER_MIN * 2 + 5) \div 10)

\* taskInput.trim() on the task texts the model enters
Trim(text) == CASE text = " A " -> "A" [] text = " " -> "" [] OTHER -> text
TaskOf(text) == IF Trim(text) = "" THEN "untitled" ELSE Trim(text)

\* local calendar day of an instant (days since the epoch of the clock)
toDateKey(instant) == instant \div (24 * 60 * SEC_PER_MIN * UnitsPerSec)

\* ------------------------------------------------------------- assignLanes
\* [...logs].sort(by startedAt): Array.prototype.sort is stable, so records
\* with equal keys keep their input order.  InsertByStart puts log behind
\* every record of the sorted list whose start is not later.
RECURSIVE InsertByStart(_, _)
InsertByStart(sorted, log) ==
  IF sorted = << >> THEN <<log>>
  ELSE IF Last(sorted).startedAt <= log.startedAt THEN Append(sorted, log)
  ELSE Append(InsertByStart(SubSeq(sorted, 1, Len(sorted) - 1), log), Last(sorted))

RECURSIVE SortByStart(_)
SortByStart(logs) ==
  IF logs = << >> THEN << >>
  ELSE InsertByStart(SortByStart(SubSeq(logs, 1, Len(logs) - 1)), Last(logs))

\* defect variant: the highest-indexed free lane
findLane_last(laneEndTimes, start) ==
  LET free == {i \in 1 .. Len(laneEndTimes) : laneEndTimes[i] <= start}
  IN IF free = {} THEN -1 ELSE (CHOOSE i \in free : \A j \in free : j <= i) - 1

\* defect variant: a lane that ends exactly at the start is not free
findLane_strict(laneEndTimes, start) ==
  LET free == {i \in 1 .. Len(laneEndTimes) : laneEndTimes[i] < start}
  IN IF free = {} THEN -1 ELSE (CHOOSE i \in free : \A j \in free : i <= j) - 1

\* laneEndTimes.findIndex((laneEnd) => laneEnd <= start), 0-based, -1 if none
findLane(laneEndTimes, start) ==
  LET free == {i \in 1 .. Len(laneEndTimes) : laneEndTimes[i] <= start}
  IN IF free = {} THEN -1 ELSE (CHOOSE i \in free : \A j \in free : i <= j) - 1

\* defect variant: a lane counts as free when it ends before the record ends
laneStep_byEnd(acc, log) ==
  LET found == findLane(acc.laneEndTimes, log.endedAt)
      lane == IF found < 0 THEN Len(acc.laneEndTimes) ELSE found
  IN [laneEndTimes |-> IF found < 0 THEN Append(acc.laneEndTimes, log.endedAt)
                       ELSE [acc.laneEndTimes EXCEPT ![lane + 1] = log.endedAt],
      withLanes |-> Append(acc.withLanes,
                      [id |-> log.id, startedAt |-> log.startedAt,
                       endedAt |-> log.endedAt, lane |-> lane])]

\* defect variant: a reused lane keeps its old end time
laneStep_noUpdate(acc, log) ==
  LET found == findLane(acc.laneEndTimes, log.startedAt)
      lane == IF found < 0 THEN Len(acc.laneEndTimes) ELSE found
  IN [laneEndTimes |-> IF found < 0 THEN Append(acc.laneEndTimes, log.endedAt)
                       ELSE acc.laneEndTimes,
      withLanes |-> Append(acc.withLanes,
                      [id |-> log.id, startedAt |-> log.startedAt,
                       endedAt |-> log.endedAt, lane |-> lane])]

\* the callback of sorted.map: one record is given its lane
laneStep(acc, log) ==
  LET found == findLane(acc.laneEndTimes, log.startedAt)
      lane == IF found < 0 THEN Len(acc.laneEndTimes) ELSE found
  IN [laneEndTimes |-> IF found < 0 THEN Append(acc.laneEndTimes, log.endedAt)
                       ELSE [acc.laneEndTimes EXCEPT ![lane + 1] = log.endedAt],
      withLanes |-> Append(acc.withLanes,
                      [id |-> log.id, startedAt |-> log.startedAt,
                       endedAt |-> log.endedAt, lane |-> lane])]

RECURSIVE MapLanes(_)
MapLanes(sorted) ==
  IF sorted = << >> THEN [laneEndTimes |-> << >>, withLanes |-> << >>]
  ELSE laneStep(MapLanes(SubSeq(sorted, 1, Len(sorted) - 1)), Last(sorted))

\* defect variant: reports the number of lanes created, 0 for no records
assignLanes_noFloor(logs) ==
  LET done == MapLanes(SortByStart(logs))
  IN [logs |-> done.withLanes, laneCount |-> Len(done.laneEndTimes)]

assignLanes(logs) ==
  LET done == MapLanes(SortByStart(logs))
  IN [logs |-> done.withLanes, laneCount |-> Max(1, Len(done.laneEndTimes))]

\* ------------------------------------------------------------ lib/storage.ts
\* A value inside the JSON text of a localStorage item, and the JavaScript
\* value JSON.parse makes of it, are records of one shape.  In the text a
\* property may be absent and a number literal may be too large for a double
\* (1e999); in memory a property may be undefined and a number may be
\* Infinity.
Overflow == [kind |-> "1e999", tenths |-> 0]
Undefined == [t |-> "undefined", n |-> Fin(0), s |-> ""]
Null == [t |-> "null", n |-> Fin(0), s |-> ""]
Bool == [t |-> "boolean", n |-> Fin(0), s |-> "true"]
Num(x) == [t |-> "number", n |-> x, s |-> ""]
Str(x) == [t |-> "string", n |-> Fin(0), s |-> x]

\* typeof value
TypeOf(v) == IF v.t = "null" THEN "object" ELSE v.t

\* JSON.parse on one property: an absent property reads as undefined, a
\* literal beyond the range of a double as Infinity
parseValue(tv) ==
  IF tv.t = "number" /\ tv.n.kind = "1e999" THEN Num(PosInf) ELSE tv

\* JSON.stringify on one property: undefined is left out, NaN and the
\* infinities are written as null
stringifyValue(v) ==
  IF v.t = "number" /\ v.n.kind # "finite" THEN Null ELSE v

FieldNames == {"id", "task", "plannedMinutes", "actualSeconds",
               "startedAt", "endedAt", "dateKey"}
NumberFields == {"plannedMinutes", "actualSeconds"}
NoFields == [k \in FieldNames |-> Undefined]

\* an element of the persisted array: an object with its properties, null,
\* or a number (whose properties all read as undefined)
parseEntry(te) == [t |-> te.t, f |-> [k \in FieldNames |-> parseValue(te.f[k])]]
stringifyEntry(e) == [t |-> e.t, f |-> [k \in FieldNames |-> stringifyValue(e.f[k])]]

\* localStorage.getItem(key): no item, the empty string, a text JSON.parse
\* rejects, or a JSON text (val.t: null, number, string, object or array)
NoItem == [kind |-> "absent", val |-> [t |-> "null", items |-> << >>]]
EmptyItem == [kind |-> "empty", val |-> [t |-> "null", items |-> << >>]]
BadItem == [kind |-> "unparsable", val |-> [t |-> "null", items |-> << >>]]
JsonItem(val) == [kind |-> "json", val |-> val]
ArrayOf(items) == [t |-> "array", items |-> items]

\* the predicate of parsed.filter
entryIsTimeLog(e) ==
  \A k \in FieldNames :
    TypeOf(e.f[k]) = IF k \in NumberFields THEN "number" ELSE "string"

\* Reading a property of a null element throws a TypeError inside the
\* filter callback; the catch turns it into [].
loadLogs(raw) ==
  IF raw.kind # "json" THEN << >>
  ELSE IF raw.val.t # "array" THEN << >>
  ELSE LET parsed == [i \in 1 .. Len(raw.val.items) |-> parseEntry(raw.val.items[i])]
       IN IF \E i \in 1 .. Len(parsed) : parsed[i].t = "null" THEN << >>
          ELSE SelectSeq(parsed, entryIsTimeLog)

saveLogs(entries) ==
  JsonItem(ArrayOf([i \in 1 .. Len(entries) |-> stringifyEntry(entries[i])]))

\* the date strings of the persisted entries, in ascending order of the
\* instants they denote; new Date(iso).getTime() is the position
IsoTimes == <<"2026-02-15T09:00:00.000Z", "2026-02-15T09:10:00.000Z",
              "2026-02-15T09:30:00.000Z">>
getTime(iso) == CHOOSE k \in 1 .. Len(IsoTimes) : IsoTimes[k] = iso

\* [...entries].sort by endedAt: stable
RECURSIVE InsertByEnd(_, _)
InsertByEnd(sorted, e) ==
  IF sorted = << >> THEN <<e>>
  ELSE IF getTime(Last(sorted).f.endedAt.s) <= getTime(e.f.endedAt.s)
       THEN Append(sorted, e)
  ELSE Append(InsertByEnd(SubSeq(sorted, 1, Len(sorted) - 1), e), Last(sorted))

RECURSIVE sortLogsByEndTime(_)
sortLogsByEndTime(entries) ==
  IF entries = << >> THEN << >>
  ELSE InsertByEnd(sortLogsByEndTime(SubSeq(entries, 1, Len(entries) - 1)),
                   Last(entries))

\* the settings item: val.t and, for an object, its properties
SettingsFields == {"setMinutes", "soundVolume", "soundType", "soundBoost",
                   "soundRepeatCount"}
SettingsVal(t, sm) ==
  [t |-> t, setMinutes |-> sm, soundVolume |-> Undefined,
   soundType |-> Undefined, soundBoost |-> Undefined,
   soundRepeatCount |-> Undefined]
NoSettings == [kind |-> "absent", val |-> SettingsVal("null", Undefined)]

\* the PersistedSettings object; {} has none of the properties
loadSettings(raw) ==
  IF raw.kind # "json" THEN [k \in SettingsFields |-> Undefined]
  ELSE IF raw.val.t \in {"object", "array"}
       THEN [k \in SettingsFields |-> parseValue(raw.val[k])]
  ELSE [k \in SettingsFields |-> Undefined]

\* a PersistedSettings argument that names no property
NoNext == [k \in SettingsFields |-> Undefined]

\* defect variant: JSON.stringify(next), the stored object is forgotten
saveSettings_replace(raw, next) ==
  JsonItem([t |-> "object",
            setMinutes |-> stringifyValue(next.setMinutes),
            soundVolume |-> stringifyValue(next.soundVolume),
            soundType |-> stringifyValue(next.soundType),
            soundBoost |-> stringifyValue(next.soundBoost),
            soundRepeatCount |-> stringifyValue(next.soundRepeatCount)])

\* JSON.stringify({ ...current, ...next }): the properties of next replace
\* those of the stored object, all others are written back
saveSettings(raw, next) ==
  LET current == loadSettings(raw)
      merged == [k \in SettingsFields |->
                   IF next[k].t # "undefined" THEN next[k] ELSE current[k]]
  IN JsonItem([t |-> "object",
               setMinutes |-> stringifyValue(merged.setMinutes),
               soundVolume |-> stringifyValue(merged.soundVolume),
               soundType |-> stringifyValue(merged.soundType),
               soundBoost |-> stringifyValue(merged.soundBoost),
               soundRepeatCount |-> stringifyValue(merged.soundRepeatCount)])

\* clampMinutes(parsed.setMinutes ?? 25); Number.isFinite is false for every
\* value that is not a number, as it is for NaN
loadSetMinutes(raw) ==
  LET v == loadSettings(raw).setMinutes
  IN IF v.t \in {"undefined", "null"} THEN clampMinutes(Fin(DEFAULT_SET_MINUTES * 10))
     ELSE IF v.t = "number" THEN clampMinutes(v.n)
     ELSE clampMinutes(NaN)

saveSetMinutes(raw, minutes) ==
  saveSettings(raw, [NoNext EXCEPT
                       !.setMinutes = Num(Fin(clampMinutes(Fin(minutes * 10)) * 10))])

\* Math.min(200, Math.max(0, Math.round(volume))); NaN stays NaN
clampSoundVolume(volume) ==
  CASE volume.kind = "finite" ->
         Fin(Min(MAX_SOUND_VOLUME, Max(0, MathRound(volume.tenths))) * 10)
    [] volume.kind \in {"Infinity", "1e999"} -> Fin(MAX_SOUND_VOLUME * 10)
    [] volume.kind = "-Infinity" -> Fin(0)
    [] OTHER -> NaN

\* volume * (boost / 100) in doubles; the finite boosts of the model are
\* multiples of ten, for which the product is exact in tenths
boosted(volume, boost) ==
  CASE boost.kind = "finite" -> Fin((volume.tenths * boost.tenths) \div 1000)
    [] volume.tenths = 0 -> NaN
    [] volume.tenths > 0 -> boost
    [] OTHER -> IF boost.kind = "-Infinity" THEN PosInf ELSE NegInf

loadSoundVolume(raw) ==
  LET parsed == loadSettings(raw)
  IN IF parsed.soundVolume.t # "number"
     THEN Fin(DEFAULT_SOUND_VOLUME * 10)
     ELSE IF parsed.soundVolume.n.kind = "finite"
             /\ parsed.soundVolume.n.tenths <= 100 * 10
          THEN clampSoundVolume(
                 boosted(parsed.soundVolume.n,
                         IF parsed.soundBoost.t = "number"
                         THEN parsed.soundBoost.n ELSE Fin(100 * 10)))
          ELSE clampSoundVolume(parsed.soundVolume.n)

\* volume: the soundVolume state, a number
saveSoundVolume(raw, volume) ==
  saveSettings(raw, [NoNext EXCEPT !.soundVolume = Num(clampSoundVolume(volume))])

isCompletionSound(value) ==
  value.t = "string" /\ value.s \in {"chime", "bell", "beep", "silent"}

loadSoundType(raw) ==
  LET parsed == loadSettings(raw)
  IN IF isCompletionSound(parsed.soundType) THEN parsed.soundType.s
     ELSE DEFAULT_SOUND_TYPE

saveSoundType(raw, soundType) ==
  saveSettings(raw, [NoNext EXCEPT !.soundType = Str(soundType)])

\* The TimeLog objects of the logs state.  The component model carries a
\* record's timestamps, day and id as integers; the object in memory holds
\* them as strings (date.toISOString(), toDateKey(date), crypto.randomUUID()),
\* one string for each integer.
toISOString(instant) == ToString(instant)
JsObject(log) ==
  [t |-> "object",
   f |-> [id |-> Str(ToString(log.id)), task |-> Str(log.task),
          plannedMinutes |-> Num(Fin(log.plannedMinutes * 10)),
          actualSeconds |-> Num(Fin(log.actualSeconds * 10)),
          startedAt |-> Str(toISOString(log.startedAt)),
          endedAt |-> Str(toISOString(log.endedAt)),
          dateKey |-> Str(ToString(log.dateKey))]]
JsObjects(list) == [i \in DOMAIN list |-> JsObject(list[i])]

\* defect variant: the effect depends on logs.length
logsEffect_onLength(prevLogs, nextLogs, item) ==
  IF Len(nextLogs) # Len(prevLogs) THEN saveLogs(JsObjects(nextLogs)) ELSE item

\* useEffect(() => saveLogs(logs), [logs]) after a render: item is the logs
\* item before it
logsEffect(prevLogs, nextLogs, item) ==
  IF nextLogs # prevLogs THEN saveLogs(JsObjects(nextLogs)) ELSE item

\* useEffect(() => saveSetMinutes(setMinutes), [setMinutes]) after a render
minutesEffect(prevMinutes, nextMinutes, item) ==
  IF nextMinutes # prevMinutes THEN saveSetMinutes(item, nextMinutes) ELSE item

\* the four save effects of the first render, in the order of the source,
\* on the settings item raw
mountSettings(raw, minutes, volume) ==
  saveSoundType(saveSoundVolume(saveSetMinutes(raw, minutes), volume),
                loadSoundType(raw))

\* ------------------------------------------------------------- log editing
\* one minute of the clock: the 60_000 of the source
MinuteUnits == SEC_PER_MIN * UnitsPerSec

\* The value of a datetime-local field: the local minute it shows, or a text
\* (such as the empty field) that new Date() turns into an Invalid Date.
EmptyInput == [valid |-> FALSE, minute |-> 0]
InputOf(m) == [valid |-> TRUE, minute |-> m]

\* `${year}-${month}-${day}T${hour}:${minute}`: seconds and milliseconds
\* are dropped
toDateTimeInputValue(instant) == InputOf(instant \div MinuteUnits)

\* new Date(input).getTime() of a field that holds a minute
inputTime(input) == input.minute * MinuteUnits

\* Math.round(a / b) for b > 0: floor(a / b + 0.5)
MathRoundDiv(a, b) == (2 * a + b) \div (2 * b)

\* Math.max(1, Math.round(minutes)), for minutes = a / b
clampDurationMinutes(a, b) == Max(1, MathRoundDiv(a, b))

\* the timestamps of a record are valid dates, so both are finite
calcDurationMinutes(startedAt, endedAt) ==
  clampDurationMinutes(endedAt - startedAt, MinuteUnits)

\* ---------------------------------------------------------- timeline blocks
\* one local day of the clock
DayUnits == 24 * 60 * MinuteUnits

\* getHours() * 60 + getMinutes() + getSeconds() / 60, in sixtieths of a
\* minute; the milliseconds of the instant are not read
minutesFromStartOfDay(instant) == (instant % DayUnits) \div UnitsPerSec

\* defect variant: a block of exactly the threshold is compact, too
timelineBlock_inclusive(entry) ==
  LET startMinute == minutesFromStartOfDay(entry.startedAt)
      endMinute == minutesFromStartOfDay(entry.endedAt)
      blockMinutes == Max(0, endMinute - startMinute)
  IN [blockMinutes |-> blockMinutes,
      isCompact |-> blockMinutes <= COMPACT_THRESHOLD_MINUTES * 60]

\* what the render computes for one entry of the timeline (blockMinutes in
\* sixtieths of a minute)
timelineBlock(entry) ==
  LET startMinute == minutesFromStartOfDay(entry.startedAt)
      endMinute == minutesFromStartOfDay(entry.endedAt)
      blockMinutes == Max(0, endMinute - startMinute)
  IN [blockMinutes |-> blockMinutes,
      isCompact |-> blockMinutes < COMPACT_THRESHOLD_MINUTES * 60]

\* editingLogId === null
NoLogId == 0

NoSession == [startedAt |-> -1, plannedMinutes |-> 0, task |-> ""]
NoSnap == [rem |-> -1, at |-> -1]

VARIABLES
  now,                 \* Date.now()
  status,              \* useState<TimerStatus>
  mode,                \* useState<TimerMode>
  setMinutes,          \* useState(initialSetMinutes)
  remainingSeconds,    \* useState(initialSetMinutes * 60)
  breakSuggestionSeconds,
  taskInput,
  logs,                \* useState<TimeLog[]>
  sessionRef,          \* useRef<SessionMeta | null>
  deadlineRef,         \* useRef<number | null>
  notified,            \* calls of notifyCompletion + playCompletionSound
  nextId,              \* ids handed out by crypto.randomUUID()
  lastOp,              \* history: the handler or callback of the last step
  fin,                 \* history: how the last step finalized a session
  sessPaused,          \* history: the last session started has been paused
  snap,                \* history: what the last pause snapshotted, and when
  cmIn, cmOut,         \* clampMinutes: argument and result
  alIn, alOut,         \* assignLanes: argument and result
  lsLogs,              \* localStorage item pomodoro.logs.v1
  lsSettings,          \* localStorage item pomodoro.settings.v1
  loadedLogs,          \* what loadLogs() returned
  initLogs,            \* the logs state of the launch that loaded them
  reloadedLogs,        \* the logs state of the next launch
  initialSetMinutes,   \* what loadSetMinutes() returned
  editingLogId,        \* useState<string | null>
  editTask,
  editStartedAtInput,  \* value of the datetime-local field
  editEndedAtInput,
  editDurationMinutes,
  blockIn, blockOut,   \* a timeline entry and the block rendered for it
  soundVolume,         \* useState(initialSoundVolume)
  initialSoundVolume   \* what loadSoundVolume() returned

vars == <<now, status, mode, setMinutes, remainingSeconds,
          breakSuggestionSeconds, taskInput, logs, sessionRef, deadlineRef,
          notified, nextId, lastOp, fin, sessPaused, snap, cmIn, cmOut,
          alIn, alOut, lsLogs, lsSettings, loadedLogs, initLogs,
          reloadedLogs, initialSetMinutes, editingLogId, editTask,
          editStartedAtInput, editEndedAtInput, editDurationMinutes,
          blockIn, blockOut, soundVolume, initialSoundVolume>>

storageVars == <<lsLogs, lsSettings, loadedLogs, initLogs, reloadedLogs,
                 initialSetMinutes>>

\* what the load functions returned
loadVars == <<loadedLogs, initLogs, reloadedLogs, initialSetMinutes>>

\* the form of the history table's row that is being edited
editVars == <<editingLogId, editTask, editStartedAtInput, editEndedAtInput,
              editDurationMinutes>>

\* arguments and results of the helpers that are checked on their own, and
\* the edit form, which no timer handler touches
soundVars == <<soundVolume, initialSoundVolume>>

pureVars == <<cmIn, cmOut, alIn, alOut, loadVars, editVars, blockIn, blockOut,
             soundVars>>

timerVars == <<now, status, mode, setMinutes, remainingSeconds,
               breakSuggestionSeconds, taskInput, logs, sessionRef, deadlineRef,
               notified, nextId, fin, sessPaused, snap>>

\* The component state a handler closes over, as one record.
Cur == [status |-> status, mode |-> mode, setMinutes |-> setMinutes,
        remainingSeconds |-> remainingSeconds,
        breakSuggestionSeconds |-> breakSuggestionSeconds,
        logs |-> logs, sessionRef |-> sessionRef, deadlineRef |-> deadlineRef,
        notified |-> notified, nextId |-> nextId,
        fin |-> "none", sessPaused |-> sessPaused,
        snap |-> IF status = "paused" THEN snap ELSE NoSnap]

Commit(s) ==
  /\ status' = s.status
  /\ mode' = s.mode
  /\ setMinutes' = s.setMinutes
  /\ remainingSeconds' = s.remainingSeconds
  /\ breakSuggestionSeconds' = s.breakSuggestionSeconds
  /\ logs' = s.logs
  /\ sessionRef' = s.sessionRef
  /\ deadlineRef' = s.deadlineRef
  /\ notified' = s.notified
  /\ nextId' = s.nextId
  /\ fin' = s.fin
  /\ sessPaused' = s.sessPaused
  /\ snap' = s.snap
  /\ lsLogs' = logsEffect(logs, s.logs, lsLogs)
  /\ lsSettings' = minutesEffect(setMinutes, s.setMinutes, lsSettings)

\* ------------------------------------------------------- component helpers
switchToBreak(s, plannedMinutes) ==
  [s EXCEPT !.mode = "break", !.status = "idle",
            !.breakSuggestionSeconds = toBreakSeconds(plannedMinutes),
            !.remainingSeconds = toBreakSeconds(plannedMinutes),
            !.deadlineRef = NoDeadline]

\* defect variant: the countdown is not set back to the configured minutes
switchToWork_keepsRemaining(s) ==
  [s EXCEPT !.mode = "work", !.status = "idle", !.deadlineRef = NoDeadline]

switchToWork(s) ==
  [s EXCEPT !.mode = "work", !.status = "idle",
            !.remainingSeconds = s.setMinutes * SEC_PER_MIN,
            !.deadlineRef = NoDeadline]

\* defect variant: records the wall-clock elapsed time without clamping
completeWorkSession_noClamp(s, endedAtMs, actualSeconds, withNotification) ==
  LET session == s.sessionRef
      newLog == [id |-> s.nextId, task |-> session.task,
                 plannedMinutes |-> session.plannedMinutes,
                 actualSeconds |-> actualSeconds,
                 startedAt |-> session.startedAt, endedAt |-> endedAtMs,
                 dateKey |-> toDateKey(session.startedAt)]
      s1 == [s EXCEPT !.logs = Append(s.logs, newLog), !.nextId = s.nextId + 1,
                      !.notified = IF withNotification
                                   THEN Append(s.notified,
                                          [task |-> session.task,
                                           plannedMinutes |-> session.plannedMinutes])
                                   ELSE s.notified,
                      !.sessionRef = NoSession, !.deadlineRef = NoDeadline]
  IN IF session = NoSession THEN s ELSE switchToBreak(s1, session.plannedMinutes)

\* defect variant: notifies on every finalization
completeWorkSession_alwaysNotify(s, endedAtMs, actualSeconds, withNotification) ==
  LET session == s.sessionRef
      plannedSeconds == session.plannedMinutes * SEC_PER_MIN
      safeActualSeconds == Max(1, Min(plannedSeconds, actualSeconds))
      newLog == [id |-> s.nextId, task |-> session.task,
                 plannedMinutes |-> session.plannedMinutes,
                 actualSeconds |-> safeActualSeconds,
                 startedAt |-> session.startedAt, endedAt |-> endedAtMs,
                 dateKey |-> toDateKey(session.startedAt)]
      s1 == [s EXCEPT !.logs = Append(s.logs, newLog), !.nextId = s.nextId + 1,
                      !.notified = Append(s.notified,
                                          [task |-> session.task,
                                           plannedMinutes |-> session.plannedMinutes]),
                      !.sessionRef = NoSession, !.deadlineRef = NoDeadline]
  IN IF session = NoSession THEN s ELSE switchToBreak(s1, session.plannedMinutes)

\* defect variant: the record takes the minutes configured at finalization
completeWorkSession_currentMinutes(s, endedAtMs, actualSeconds, withNotification) ==
  LET session == s.sessionRef
      plannedSeconds == session.plannedMinutes * SEC_PER_MIN
      safeActualSeconds == Max(1, Min(plannedSeconds, actualSeconds))
      newLog == [id |-> s.nextId, task |-> session.task,
                 plannedMinutes |-> s.setMinutes,
                 actualSeconds |-> safeActualSeconds,
                 startedAt |-> session.startedAt, endedAt |-> endedAtMs,
                 dateKey |-> toDateKey(session.startedAt)]
      s1 == [s EXCEPT !.logs = Append(s.logs, newLog), !.nextId = s.nextId + 1,
                      !.notified = IF withNotification
                                   THEN Append(s.notified,
                                          [task |-> session.task,
                                           plannedMinutes |-> session.plannedMinutes])
                                   ELSE s.notified,
                      !.sessionRef = NoSession, !.deadlineRef = NoDeadline]
  IN IF session = NoSession THEN s ELSE switchToBreak(s1, session.plannedMinutes)

\* defect variant: puts the new record in front, as earlier versions did
completeWorkSession_prepend(s, endedAtMs, actualSeconds, withNotification) ==
  LET session == s.sessionRef
      plannedSeconds == session.plannedMinutes * SEC_PER_MIN
      safeActualSeconds == Max(1, Min(plannedSeconds, actualSeconds))
      newLog == [id |-> s.nextId, task |-> session.task,
                 plannedMinutes |-> session.plannedMinutes,
                 actualSeconds |-> safeActualSeconds,
                 startedAt |-> session.startedAt, endedAt |-> endedAtMs,
                 dateKey |-> toDateKey(session.startedAt)]
      s1 == [s EXCEPT !.logs = <<newLog>> \o s.logs, !.nextId = s.nextId + 1,
                      !.notified = IF withNotification
                                   THEN Append(s.notified,
                                          [task |-> session.task,
                                           plannedMinutes |-> session.plannedMinutes])
                                   ELSE s.notified,
                      !.sessionRef = NoSession, !.deadlineRef = NoDeadline]
  IN IF session = NoSession THEN s ELSE switchToBreak(s1, session.plannedMinutes)

\* defect variant: the session descriptor is not cleared
completeWorkSession_keepsSession(s, endedAtMs, actualSeconds, withNotification) ==
  LET session == s.sessionRef
      plannedSeconds == session.plannedMinutes * SEC_PER_MIN
      safeActualSeconds == Max(1, Min(plannedSeconds, actualSeconds))
      newLog == [id |-> s.nextId, task |-> session.task,
                 plannedMinutes |-> session.plannedMinutes,
                 actualSeconds |-> safeActualSeconds,
                 startedAt |-> session.startedAt, endedAt |-> endedAtMs,
                 dateKey |-> toDateKey(session.startedAt)]
      s1 == [s EXCEPT !.logs = Append(s.logs, newLog), !.nextId = s.nextId + 1,
                      !.notified = IF withNotification
                                   THEN Append(s.notified,
                                          [task |-> session.task,
                                           plannedMinutes |-> session.plannedMinutes])
                                   ELSE s.notified,
                      !.deadlineRef = NoDeadline]
  IN IF session = NoSession THEN s ELSE switchToBreak(s1, session.plannedMinutes)

\* defect variant: the break is taken from the minutes configured now
completeWorkSession_breakOfSetting(s, endedAtMs, actualSeconds, withNotification) ==
  LET session == s.sessionRef
      plannedSeconds == session.plannedMinutes * SEC_PER_MIN
      safeActualSeconds == Max(1, Min(plannedSeconds, actualSeconds))
      newLog == [id |-> s.nextId, task |-> session.task,
                 plannedMinutes |-> session.plannedMinutes,
                 actualSeconds |-> safeActualSeconds,
                 startedAt |-> session.startedAt, endedAt |-> endedAtMs,
                 dateKey |-> toDateKey(session.startedAt)]
      s1 == [s EXCEPT !.logs = Append(s.logs, newLog), !.nextId = s.nextId + 1,
                      !.notified = IF withNotification
                                   THEN Append(s.notified,
                                          [task |-> session.task,
                                           plannedMinutes |-> session.plannedMinutes])
                                   ELSE s.notified,
                      !.sessionRef = NoSession, !.deadlineRef = NoDeadline]
  IN IF session = NoSession THEN s ELSE switchToBreak(s1, s.setMinutes)

\* actualSeconds is an integer at both call sites, so Math.round leaves it
completeWorkSession(s, endedAtMs, actualSeconds, withNotification) ==
  LET session == s.sessionRef
      plannedSeconds == session.plannedMinutes * SEC_PER_MIN
      safeActualSeconds == Max(1, Min(plannedSeconds, actualSeconds))
      newLog == [id |-> s.nextId, task |-> session.task,
                 plannedMinutes |-> session.plannedMinutes,
                 actualSeconds |-> safeActualSeconds,
                 startedAt |-> session.startedAt, endedAt |-> endedAtMs,
                 dateKey |-> toDateKey(session.startedAt)]
      s1 == [s EXCEPT !.logs = Append(s.logs, newLog), !.nextId = s.nextId + 1,
                      !.notified = IF withNotification
                                   THEN Append(s.notified,
                                          [task |-> session.task,
                                           plannedMinutes |-> session.plannedMinutes])
                                   ELSE s.notified,
                      !.sessionRef = NoSession, !.deadlineRef = NoDeadline]
  IN IF session = NoSession THEN s ELSE switchToBreak(s1, session.plannedMinutes)

\* ------------------------------------------------------------------ effects
\* defect variant: a missing deadline is read as the number 0
syncRemaining_nullAsZero(s, t) ==
  [s EXCEPT !.remainingSeconds =
     IF s.deadlineRef = NoDeadline THEN 0
     ELSE Max(0, MathCeilDiv(s.deadlineRef - t, UnitsPerSec))]

syncRemaining(s, t) ==
  IF s.deadlineRef = NoDeadline THEN s
  ELSE [s EXCEPT !.remainingSeconds =
          Max(0, MathCeilDiv(s.deadlineRef - t, UnitsPerSec))]

\* defect variant: stamps the record with the instant the callback ran
zeroCrossingEffect_now(s, t) ==
  IF s.status # "running" \/ s.remainingSeconds # 0 THEN s
  ELSE IF s.mode = "work"
       THEN [completeWorkSession(s, t,
               s.sessionRef.plannedMinutes * SEC_PER_MIN, TRUE)
             EXCEPT !.fin = IF s.sessionRef = NoSession THEN s.fin ELSE "timeout"]
       ELSE switchToWork(s)

\* useEffect on [mode, remainingSeconds, status]
zeroCrossingEffect(s, t) ==
  IF s.status # "running" \/ s.remainingSeconds # 0 THEN s
  ELSE IF s.mode = "work"
       THEN [completeWorkSession(s,
               IF s.deadlineRef # NoDeadline THEN s.deadlineRef ELSE t,
               s.sessionRef.plannedMinutes * SEC_PER_MIN, TRUE)
             EXCEPT !.fin = IF s.sessionRef = NoSession THEN s.fin ELSE "timeout"]
       ELSE switchToWork(s)

\* The effects of the render that follows a handler which took the state
\* from prev to s: the [status] effect calls syncRemaining() when status has
\* become running, then the zero-crossing effect looks at the result.
runEffects(prev, s, t) ==
  LET s1 == IF s.status = "running" /\ prev.status # "running"
            THEN syncRemaining(s, t) ELSE s
  IN zeroCrossingEffect(s1, t)

\* ----------------------------------------------------------------- handlers
canEditSetting(s) == s.mode = "work" /\ s.status \in {"idle", "done"}

applyMinutes(s, nextMinutes) ==
  LET clamped == clampMinutes(nextMinutes)
  IN [s EXCEPT !.setMinutes = clamped,
               !.remainingSeconds = IF canEditSetting(s)
                                    THEN clamped * SEC_PER_MIN
                                    ELSE s.remainingSeconds]

onStart(s, t, text) ==
  IF s.status = "running" THEN s
  ELSE IF s.mode = "break"
  THEN IF s.remainingSeconds <= 0 THEN s
       ELSE [s EXCEPT !.deadlineRef = IF s.status \in {"idle", "done"}
                                      THEN t + s.remainingSeconds * UnitsPerSec
                                      ELSE s.deadlineRef,
                      !.status = "running"]
  ELSE IF s.setMinutes <= 0 THEN s
  ELSE IF s.status \in {"idle", "done"}
  THEN [s EXCEPT !.sessionRef = [startedAt |-> t, plannedMinutes |-> s.setMinutes,
                                 task |-> TaskOf(text)],
                 !.remainingSeconds = s.setMinutes * SEC_PER_MIN,
                 !.deadlineRef = t + s.setMinutes * SEC_PER_MIN * UnitsPerSec,
                 !.sessPaused = FALSE,
                 !.status = "running"]
  ELSE [s EXCEPT !.status = "running"]

\* defect variant: pauses whatever the status
onPause_unguarded(s, t) ==
  LET snapshot == IF s.deadlineRef # NoDeadline
                  THEN Max(0, MathCeilDiv(s.deadlineRef - t, UnitsPerSec))
                  ELSE s.remainingSeconds
  IN [s EXCEPT !.remainingSeconds = snapshot,
               !.deadlineRef = NoDeadline,
               !.sessPaused = (s.sessPaused \/ s.sessionRef # NoSession),
               !.snap = [rem |-> snapshot, at |-> t],
               !.status = "paused"]

onPause(s, t) ==
  IF s.status = "running"
  THEN LET snapshot == IF s.deadlineRef # NoDeadline
                       THEN Max(0, MathCeilDiv(s.deadlineRef - t, UnitsPerSec))
                       ELSE s.remainingSeconds
       IN [s EXCEPT !.remainingSeconds = snapshot,
                    !.deadlineRef = NoDeadline,
                    !.sessPaused = (s.sessPaused \/ s.sessionRef # NoSession),
                    !.snap = [rem |-> snapshot, at |-> t],
                    !.status = "paused"]
  ELSE s

\* defect variant: adds the remaining seconds to the clock without scaling them
onResume_unscaled(s, t) ==
  IF s.status = "paused"
  THEN [s EXCEPT !.deadlineRef = t + s.remainingSeconds, !.status = "running"]
  ELSE s

onResume(s, t) ==
  IF s.status = "paused"
  THEN [s EXCEPT !.deadlineRef = t + s.remainingSeconds * UnitsPerSec,
                 !.status = "running"]
  ELSE s

\* defect variant: goes back to idle but keeps the session descriptor
onReset_keepsSession(s) ==
  [s EXCEPT !.deadlineRef = NoDeadline,
            !.mode = "work", !.status = "idle",
            !.remainingSeconds = s.setMinutes * SEC_PER_MIN]

onReset(s) ==
  [s EXCEPT !.sessionRef = NoSession, !.deadlineRef = NoDeadline,
            !.mode = "work", !.status = "idle",
            !.remainingSeconds = s.setMinutes * SEC_PER_MIN]

onSkipBreak(s) == switchToWork(s)

onComplete(s, t) ==
  IF s.status # "running" /\ s.status # "paused" THEN s
  ELSE IF s.mode # "work" THEN s
  ELSE IF s.sessionRef = NoSession THEN s
  ELSE [completeWorkSession(s, t,
          s.sessionRef.plannedMinutes * SEC_PER_MIN - s.remainingSeconds, FALSE)
        EXCEPT !.fin = "manual"]

\* ------------------------------------------------------ history handlers
\* The edit form and the logs a history handler closes over, as one record.
CurEdit == [editingLogId |-> editingLogId, editTask |-> editTask,
            editStartedAtInput |-> editStartedAtInput,
            editEndedAtInput |-> editEndedAtInput,
            editDurationMinutes |-> editDurationMinutes, logs |-> logs]

CommitEdit(e) ==
  /\ editingLogId' = e.editingLogId
  /\ editTask' = e.editTask
  /\ editStartedAtInput' = e.editStartedAtInput
  /\ editEndedAtInput' = e.editEndedAtInput
  /\ editDurationMinutes' = e.editDurationMinutes
  /\ logs' = e.logs
  /\ lsLogs' = logsEffect(logs, e.logs, lsLogs)

onStartEditingLog(e, log) ==
  [e EXCEPT !.editingLogId = log.id,
            !.editTask = log.task,
            !.editStartedAtInput = toDateTimeInputValue(log.startedAt),
            !.editEndedAtInput = toDateTimeInputValue(log.endedAt),
            !.editDurationMinutes = calcDurationMinutes(log.startedAt, log.endedAt)]

onCancelEditingLog(e) == [e EXCEPT !.editingLogId = NoLogId]

\* defect variant: a saved edit keeps the day the record had
savedLog_keepsDateKey(e, log) ==
  LET nextEndedAtMs == IF e.editEndedAtInput.valid
                       THEN inputTime(e.editEndedAtInput) ELSE log.endedAt
      draftStartedAtMs == IF e.editStartedAtInput.valid
                          THEN inputTime(e.editStartedAtInput) ELSE log.startedAt
      nextStartedAtMs == Min(draftStartedAtMs, nextEndedAtMs - MinuteUnits)
      nextDurationMinutes ==
        clampDurationMinutes(nextEndedAtMs - nextStartedAtMs, MinuteUnits)
  IN [log EXCEPT !.task = TaskOf(e.editTask),
                 !.startedAt = nextStartedAtMs,
                 !.actualSeconds = nextDurationMinutes * SEC_PER_MIN,
                 !.endedAt = nextEndedAtMs]

\* the record onSaveLog puts in the place of log.  The timestamps of log are
\* valid dates, so originalEndMs is finite and the fallback on
\* editDurationMinutes is never taken.
savedLog(e, log) ==
  LET nextEndedAtMs == IF e.editEndedAtInput.valid
                       THEN inputTime(e.editEndedAtInput) ELSE log.endedAt
      draftStartedAtMs == IF e.editStartedAtInput.valid
                          THEN inputTime(e.editStartedAtInput) ELSE log.startedAt
      nextStartedAtMs == Min(draftStartedAtMs, nextEndedAtMs - MinuteUnits)
      nextDurationMinutes ==
        clampDurationMinutes(nextEndedAtMs - nextStartedAtMs, MinuteUnits)
  IN [log EXCEPT !.task = TaskOf(e.editTask),
                 !.startedAt = nextStartedAtMs,
                 !.dateKey = toDateKey(nextStartedAtMs),
                 !.actualSeconds = nextDurationMinutes * SEC_PER_MIN,
                 !.endedAt = nextEndedAtMs]

onSaveLog(e) ==
  IF e.editingLogId = NoLogId THEN e
  ELSE [e EXCEPT !.logs = [i \in DOMAIN e.logs |->
                             IF e.logs[i].id # e.editingLogId THEN e.logs[i]
                             ELSE savedLog(e, e.logs[i])],
                 !.editingLogId = NoLogId]

\* defect variant: deletes without asking
onDeleteLog_unconfirmed(e, id, confirmed) ==
  [e EXCEPT !.logs = SelectSeq(e.logs, LAMBDA log : log.id # id),
            !.editingLogId = IF e.editingLogId = id THEN NoLogId ELSE @]

\* confirmed: what window.confirm returned
onDeleteLog(e, id, confirmed) ==
  IF ~confirmed THEN e
  ELSE [e EXCEPT !.logs = SelectSeq(e.logs, LAMBDA log : log.id # id),
                 !.editingLogId = IF e.editingLogId = id THEN NoLogId ELSE @]

\* defect variant: the end moves with the start
onEditStartedAtChange_shiftsEnd(e, value) ==
  IF ~value.valid \/ ~e.editEndedAtInput.valid
  THEN [e EXCEPT !.editStartedAtInput = value]
  ELSE [e EXCEPT !.editStartedAtInput = value,
                 !.editEndedAtInput =
                    InputOf(value.minute + e.editDurationMinutes)]

onEditStartedAtChange(e, value) ==
  IF ~value.valid \/ ~e.editEndedAtInput.valid
  THEN [e EXCEPT !.editStartedAtInput = value]
  ELSE LET startMs == inputTime(value)
           endMs == inputTime(e.editEndedAtInput)
           safeStartMs == Min(startMs, endMs - MinuteUnits)
       IN [e EXCEPT !.editStartedAtInput =
                       IF safeStartMs # startMs
                       THEN toDateTimeInputValue(safeStartMs) ELSE value,
                    !.editDurationMinutes =
                       clampDurationMinutes(endMs - safeStartMs, MinuteUnits)]

onEditEndedAtChange(e, value) ==
  IF ~e.editStartedAtInput.valid \/ ~value.valid
  THEN [e EXCEPT !.editEndedAtInput = value]
  ELSE [e EXCEPT !.editEndedAtInput = value,
                 !.editDurationMinutes =
                    clampDurationMinutes(
                      inputTime(value) - inputTime(e.editStartedAtInput),
                      MinuteUnits)]

\* nextDuration: the number typed into the duration field, in tenths
onEditDurationChange(e, nextDuration) ==
  LET safeDurationMinutes == clampDurationMinutes(nextDuration.tenths, 10)
  IN IF ~e.editStartedAtInput.valid
     THEN [e EXCEPT !.editDurationMinutes = safeDurationMinutes]
     ELSE [e EXCEPT !.editDurationMinutes = safeDurationMinutes,
                    !.editEndedAtInput =
                       toDateTimeInputValue(inputTime(e.editStartedAtInput)
                                            + safeDurationMinutes * MinuteUnits)]

\* ---------------------------------------------------------- action buttons
\* the buttons the render puts in the action-buttons block

\* defect variant: the pause button belongs to work sessions only
Offered_pauseInWork(control) ==
  CASE control = "start" -> status \in {"idle", "done"}
    [] control = "pause" -> mode = "work" /\ status = "running"
    [] control = "resume" -> status = "paused"
    [] control = "complete" -> mode = "work" /\ status \in {"running", "paused"}
    [] control = "skip" -> mode = "break" /\ status \in {"running", "paused"}
    [] control = "reset" -> mode = "work"

Offered(control) ==
  CASE control = "start" -> status \in {"idle", "done"}
    [] control = "pause" -> status = "running"
    [] control = "resume" -> status = "paused"
    [] control = "complete" -> mode = "work" /\ status \in {"running", "paused"}
    [] control = "skip" -> mode = "break" /\ status \in {"running", "paused"}
    [] control = "reset" -> mode = "work"

\* ------------------------------------------------------------------ inputs
\* how far the clock may move between two events: half a minute and a
\* fraction of a second, or more than a minute
Jumps == {30 * UnitsPerSec + 1, 65 * UnitsPerSec}
MaxNow == MaxNowSec * UnitsPerSec
\* values typed into the minutes field: -5 and 1.4
MinuteInputs == {Fin(-50), Fin(14)}
TaskInputs == {"", " A "}

\* the state after construction, given the records and the minutes found in
\* storage
InitLaunch(storedLogs, storedMinutes) ==
  /\ now = 0
  /\ status = "idle"
  /\ mode = "work"
  /\ setMinutes = storedMinutes
  /\ remainingSeconds = storedMinutes * SEC_PER_MIN
  /\ breakSuggestionSeconds = 5 * SEC_PER_MIN
  /\ taskInput = ""
  /\ logs = storedLogs
  /\ sessionRef = NoSession
  /\ deadlineRef = NoDeadline
  /\ notified = << >>
  /\ nextId = 1
  /\ lastOp = "init"
  /\ fin = "none"
  /\ sessPaused = FALSE
  /\ snap = NoSnap

\* a launch that finds no settings
InitApp(storedLogs) == InitLaunch(storedLogs, DEFAULT_MINUTES)

InitTimer == InitApp(<< >>)

\* the helpers checked on their own are not called in Spec
ClampIdle == cmIn = Fin(0) /\ cmOut = 0
LanesIdle == alIn = << >> /\ alOut = [logs |-> << >>, laneCount |-> 0]

\* no row of the history table is being edited
EditIdle ==
  /\ editingLogId = NoLogId /\ editTask = ""
  /\ editStartedAtInput = EmptyInput /\ editEndedAtInput = EmptyInput
  /\ editDurationMinutes = 25

SoundIdle ==
  /\ soundVolume = Fin(DEFAULT_SOUND_VOLUME * 10)
  /\ initialSoundVolume = Fin(DEFAULT_SOUND_VOLUME * 10)

NoBlock == [blockMinutes |-> 0, isCompact |-> FALSE]
BlockIdle ==
  /\ blockIn = [startedAt |-> 0, endedAt |-> 0, plannedMinutes |-> 0]
  /\ blockOut = NoBlock

StorageIdle ==
  /\ lsLogs = NoItem /\ lsSettings = NoSettings
  /\ loadedLogs = << >> /\ initLogs = << >> /\ reloadedLogs = << >>
  /\ initialSetMinutes = DEFAULT_SET_MINUTES

\* storage after the save effects of the first render, when the launch found
\* the settings item raw
MountedOn(raw) ==
  /\ lsLogs = saveLogs(JsObjects(logs))
  /\ lsSettings = mountSettings(raw, setMinutes, soundVolume)
  /\ loadedLogs = << >> /\ initLogs = << >> /\ reloadedLogs = << >>
  /\ initialSetMinutes = setMinutes

Mounted == MountedOn(NoSettings)

Init ==
  /\ InitTimer
  /\ ClampIdle
  /\ LanesIdle
  /\ EditIdle
  /\ BlockIdle
  /\ SoundIdle
  /\ Mounted

\* ----------------------------------------------------------------- actions
\* time passes; no callback runs
Advance ==
  /\ \E d \in Jumps : now + d <= MaxNow /\ now' = now + d
  /\ lastOp' = "advance"
  /\ fin' = "none"
  /\ snap' = IF status = "paused" THEN snap ELSE NoSnap
  /\ UNCHANGED <<status, mode, setMinutes, remainingSeconds,
                 breakSuggestionSeconds, taskInput, logs, sessionRef,
                 deadlineRef, notified, nextId, sessPaused, lsLogs,
                 lsSettings, pureVars>>

\* the 250 ms interval callback, which exists while status is running
Tick ==
  /\ status = "running"
  /\ Commit(zeroCrossingEffect(syncRemaining(Cur, now), now))
  /\ lastOp' = "tick"
  /\ UNCHANGED <<now, taskInput, pureVars>>

\* an interval callback that is delivered although status has left running:
\* the callback body is syncRemaining(), and a render it causes runs the
\* zero-crossing effect
StaleTick ==
  /\ status # "running"
  /\ Commit(zeroCrossingEffect(syncRemaining(Cur, now), now))
  /\ lastOp' = "staleTick"
  /\ UNCHANGED <<now, taskInput, pureVars>>

Start ==
  /\ (mode = "work" /\ status \in {"idle", "done"} /\ setMinutes > 0)
        => nextId <= MaxLogs
  /\ Commit(runEffects(Cur, onStart(Cur, now, taskInput), now))
  /\ lastOp' = "start"
  /\ UNCHANGED <<now, taskInput, pureVars>>

Pause ==
  /\ Commit(runEffects(Cur, onPause(Cur, now), now))
  /\ lastOp' = "pause"
  /\ UNCHANGED <<now, taskInput, pureVars>>

Resume ==
  /\ Commit(runEffects(Cur, onResume(Cur, now), now))
  /\ lastOp' = "resume"
  /\ UNCHANGED <<now, taskInput, pureVars>>

Reset ==
  /\ Commit(runEffects(Cur, onReset(Cur), now))
  /\ lastOp' = "reset"
  /\ UNCHANGED <<now, taskInput, pureVars>>

SkipBreak ==
  /\ Commit(runEffects(Cur, onSkipBreak(Cur), now))
  /\ lastOp' = "skipBreak"
  /\ UNCHANGED <<now, taskInput, pureVars>>

Complete ==
  /\ Commit(runEffects(Cur, onComplete(Cur, now), now))
  /\ lastOp' = "complete"
  /\ UNCHANGED <<now, taskInput, pureVars>>

ApplyMinutes ==
  /\ \E n \in MinuteInputs : Commit(runEffects(Cur, applyMinutes(Cur, n), now))
  /\ lastOp' = "applyMinutes"
  /\ UNCHANGED <<now, taskInput, pureVars>>

SetTaskInput ==
  /\ mode = "work"
  /\ \E text \in TaskInputs : taskInput' = text
  /\ lastOp' = "setTaskInput"
  /\ fin' = "none"
  /\ snap' = IF status = "paused" THEN snap ELSE NoSnap
  /\ UNCHANGED <<now, status, mode, setMinutes, remainingSeconds,
                 breakSuggestionSeconds, logs, sessionRef, deadlineRef,
                 notified, nextId, sessPaused, lsLogs, lsSettings, pureVars>>

Next ==
  \/ Advance
  \/ Tick
  \/ Start
  \/ Pause
  \/ Resume
  \/ Reset
  \/ SkipBreak
  \/ Complete
  \/ ApplyMinutes
  \/ SetTaskInput

Spec == Init /\ [][Next]_vars

\* ------------------------------------------- a launch that finds old records
\* record k of an earlier day: ten minutes, well before the launch; ids of
\* stored records differ from those handed out in this launch
OldLog(k) ==
  LET start == (k - MaxOld - 1) * 11 * SEC_PER_MIN * UnitsPerSec
  IN [id |-> -k, task |-> "old", plannedMinutes |-> 10,
      actualSeconds |-> 10 * SEC_PER_MIN,
      startedAt |-> start, endedAt |-> start + 10 * SEC_PER_MIN * UnitsPerSec,
      dateKey |-> toDateKey(start)]

InitHistory ==
  /\ \E n \in 0 .. MaxOld : InitApp([k \in 1 .. n |-> OldLog(k)])
  /\ ClampIdle
  /\ LanesIdle
  /\ EditIdle
  /\ BlockIdle
  /\ SoundIdle
  /\ Mounted

\* sessions are set up, started and ended
NextHistory ==
  \/ Advance
  \/ Tick
  \/ Start
  \/ Complete
  \/ ApplyMinutes
  \/ SetTaskInput

SpecHistory == InitHistory /\ [][NextHistory]_vars

\* ------------------------------------------------ the history table on its own
\* minutes the datetime-local fields are set to
EditSpan == 2
\* what is typed into a datetime-local field: a minute, or nothing
DateInputs == {EmptyInput, InputOf(0), InputOf(EditSpan)}
\* what is typed into the duration field: -5 and 1.5
DurationInputs == {Fin(-50), Fin(15)}
\* what is typed into the task field of the row
EditTaskInputs == {""}

\* instants at which a stored session began or ended: on the minute or half
\* a minute past it
StoredInstants ==
  {m * MinuteUnits + o * UnitsPerSec : m \in 0 .. EditSpan, o \in {0, 30}}

\* a record as completeWorkSession writes it: endedAt - startedAt is
\* actualSeconds
EditLog(start, end) ==
  [id |-> -(MaxOld + 1), task |-> "A", plannedMinutes |-> 25,
   actualSeconds |-> (end - start) \div UnitsPerSec,
   startedAt |-> start, endedAt |-> end, dateKey |-> toDateKey(start)]

\* the launch finds no record or one recent record
InitEdit ==
  /\ \/ InitApp(<< >>)
     \/ \E start \in StoredInstants, end \in StoredInstants :
          start < end /\ InitApp(<<EditLog(start, end)>>)
  /\ ClampIdle
  /\ LanesIdle
  /\ EditIdle
  /\ BlockIdle
  /\ SoundIdle
  /\ Mounted

\* what a history handler leaves alone
EditFrame ==
  /\ fin' = "none"
  /\ snap' = IF status = "paused" THEN snap ELSE NoSnap
  /\ UNCHANGED <<now, status, mode, setMinutes, remainingSeconds,
                 breakSuggestionSeconds, taskInput, sessionRef, deadlineRef,
                 notified, nextId, sessPaused, cmIn, cmOut, alIn, alOut,
                 lsSettings, loadVars, blockIn, blockOut, soundVars>>

\* the edit button of a row that is not being edited
StartEditingLog ==
  /\ \E i \in DOMAIN logs :
       /\ logs[i].id # editingLogId
       /\ CommitEdit(onStartEditingLog(CurEdit, logs[i]))
  /\ lastOp' = "startEditingLog"
  /\ EditFrame

CancelEditingLog ==
  /\ CommitEdit(onCancelEditingLog(CurEdit))
  /\ lastOp' = "cancelEditingLog"
  /\ EditFrame

SetEditTask ==
  /\ editingLogId # NoLogId
  /\ \E text \in EditTaskInputs : editTask' = text
  /\ lastOp' = "setEditTask"
  /\ EditFrame
  /\ UNCHANGED <<editingLogId, editStartedAtInput, editEndedAtInput,
                 editDurationMinutes, logs, lsLogs>>

EditStartedAtChange ==
  /\ editingLogId # NoLogId
  /\ \E value \in DateInputs : CommitEdit(onEditStartedAtChange(CurEdit, value))
  /\ lastOp' = "editStartedAtChange"
  /\ EditFrame

EditEndedAtChange ==
  /\ editingLogId # NoLogId
  /\ \E value \in DateInputs : CommitEdit(onEditEndedAtChange(CurEdit, value))
  /\ lastOp' = "editEndedAtChange"
  /\ EditFrame

EditDurationChange ==
  /\ editingLogId # NoLogId
  /\ \E d \in DurationInputs : CommitEdit(onEditDurationChange(CurEdit, d))
  /\ lastOp' = "editDurationChange"
  /\ EditFrame

SaveLog ==
  /\ CommitEdit(onSaveLog(CurEdit))
  /\ lastOp' = "saveLog"
  /\ EditFrame

\* the delete button of a row, and the answer to window.confirm
DeleteLog ==
  /\ \E i \in DOMAIN logs : \E confirmed \in BOOLEAN :
       /\ CommitEdit(onDeleteLog(CurEdit, logs[i].id, confirmed))
       /\ lastOp' = IF confirmed THEN "deleteLog" ELSE "deleteLogCancelled"
  /\ EditFrame

NextEdit ==
  \/ StartEditingLog
  \/ CancelEditingLog
  \/ SetEditTask
  \/ EditStartedAtChange
  \/ EditEndedAtChange
  \/ EditDurationChange
  \/ SaveLog
  \/ DeleteLog

SpecEdit == InitEdit /\ [][NextEdit]_vars

\* ----------------------------------------- deleting rows of a longer history
\* the launch finds old records and, behind them, at most one recent record
InitDelete ==
  /\ \E n \in 0 .. MaxOld :
       \/ InitApp([k \in 1 .. n |-> OldLog(k)])
       \/ \E start \in StoredInstants, end \in StoredInstants :
            /\ start < end
            /\ InitApp(Append([k \in 1 .. n |-> OldLog(k)], EditLog(start, end)))
  /\ ClampIdle
  /\ LanesIdle
  /\ EditIdle
  /\ BlockIdle
  /\ SoundIdle
  /\ Mounted

\* rows are opened for editing, closed and deleted
NextDelete ==
  \/ StartEditingLog
  \/ CancelEditingLog
  \/ DeleteLog

SpecDelete == InitDelete /\ [][NextDelete]_vars

\* ------------------------------------------------- timeline blocks on their own
\* how far the entries reach around the instants and lengths of interest
BlockSpan == 2
\* sessions begin at 09:00 or 23:45, on the second or a fraction past it
BlockStarts ==
  {m * MinuteUnits + o : m \in {9 * 60, 23 * 60 + 45}, o \in 0 .. BlockSpan}
\* they last 25 minutes, or 30 minutes give or take some seconds
BlockLengths ==
  {25 * MinuteUnits}
  \cup {COMPACT_THRESHOLD_MINUTES * MinuteUnits + d :
          d \in (-(BlockSpan * UnitsPerSec)) .. (BlockSpan * UnitsPerSec)}

InitBlock ==
  /\ InitTimer
  /\ ClampIdle
  /\ LanesIdle
  /\ StorageIdle
  /\ EditIdle
  /\ \E start \in BlockStarts, len \in BlockLengths, planned \in {25, 40} :
       blockIn = [startedAt |-> start, endedAt |-> start + len,
                  plannedMinutes |-> planned]
  /\ blockOut = NoBlock
  /\ SoundIdle

RenderBlock ==
  /\ lastOp = "init"
  /\ blockOut' = timelineBlock(blockIn)
  /\ lastOp' = "timelineBlock"
  /\ UNCHANGED <<timerVars, editVars, soundVars, cmIn, cmOut, alIn, alOut,
                 storageVars, blockIn>>

NextBlock == RenderBlock

SpecBlock == InitBlock /\ [][NextBlock]_vars

\* --------------------------------------------- the sound volume setting on its own
\* volumes the slider is set to
VolumeInputs == {Fin(0), Fin(350), Fin(1000), Fin(1010), Fin(2000)}

\* what the soundVolume and soundBoost properties of a stored settings
\* object may hold
StoredVolumes == {Undefined, Null, Str("70"), Num(Fin(700)), Num(Fin(1400))}
StoredBoosts ==
  {Undefined, Null, Str("150"), Num(Fin(0)), Num(Fin(500)), Num(Fin(1000)),
   Num(Fin(1500)), Num(Overflow)}

SoundSettingsItems ==
  {NoSettings,
   [kind |-> "empty", val |-> SettingsVal("null", Undefined)],
   [kind |-> "unparsable", val |-> SettingsVal("null", Undefined)]}
  \cup {JsonItem(SettingsVal(t, Undefined)) : t \in {"null", "number", "string", "array"}}
  \cup {JsonItem([SettingsVal("object", Undefined) EXCEPT
                    !.soundVolume = sv, !.soundBoost = sb]) :
          sv \in StoredVolumes, sb \in StoredBoosts}

InitSound ==
  /\ InitTimer
  /\ ClampIdle
  /\ LanesIdle
  /\ EditIdle
  /\ BlockIdle
  /\ lsLogs = NoItem
  /\ lsSettings \in SoundSettingsItems
  /\ loadedLogs = << >> /\ initLogs = << >> /\ reloadedLogs = << >>
  /\ initialSetMinutes = DEFAULT_SET_MINUTES
  /\ soundVolume \in VolumeInputs
  /\ initialSoundVolume = Fin(DEFAULT_SOUND_VOLUME * 10)

\* the effect on [soundVolume]
SaveSoundVolume ==
  /\ lastOp # "loadSoundVolume"
  /\ lsSettings' = saveSoundVolume(lsSettings, soundVolume)
  /\ lastOp' = "saveSoundVolume"
  /\ UNCHANGED <<timerVars, editVars, soundVars, cmIn, cmOut, alIn, alOut,
                 blockIn, blockOut, lsLogs, loadedLogs, initLogs,
                 reloadedLogs, initialSetMinutes>>

\* the next launch: useMemo(() => loadSoundVolume(), [])
LoadSoundVolume ==
  /\ lastOp = "saveSoundVolume"
  /\ initialSoundVolume' = loadSoundVolume(lsSettings)
  /\ lastOp' = "loadSoundVolume"
  /\ UNCHANGED <<timerVars, editVars, soundVolume, cmIn, cmOut, alIn, alOut,
                 blockIn, blockOut, storageVars>>

NextSound ==
  \/ SaveSoundVolume
  \/ LoadSoundVolume

SpecSound == InitSound /\ [][NextSound]_vars

\* ------------------------------------------------ the three settings together
\* what each property of a stored settings object may hold: nothing, a value
\* of the right type, a value of another type; soundBoost and
\* soundRepeatCount are properties earlier versions wrote
StoredSettings ==
  {[t |-> "object", setMinutes |-> sm, soundVolume |-> sv, soundType |-> st,
    soundBoost |-> sb, soundRepeatCount |-> sr] :
     sm \in {Undefined, Num(Fin(400)), Str("40")},
     sv \in {Undefined, Num(Fin(700)), Null},
     st \in {Undefined, Str("bell"), Str("gong")},
     sb \in {Undefined, Num(Fin(1500))},
     sr \in {Undefined, Num(Fin(30))}}

AllSettingsItems ==
  {NoSettings,
   [kind |-> "empty", val |-> SettingsVal("null", Undefined)],
   [kind |-> "unparsable", val |-> SettingsVal("null", Undefined)]}
  \cup {JsonItem(SettingsVal(t, Undefined)) : t \in {"null", "number", "string", "array"}}
  \cup {JsonItem(val) : val \in StoredSettings}

\* minutes and sound types handed to the save functions
SavedMinutes == {0, 1, 25}
SavedSoundTypes == {"chime", "bell", "silent"}

InitSettings ==
  /\ InitTimer
  /\ ClampIdle
  /\ LanesIdle
  /\ EditIdle
  /\ BlockIdle
  /\ lsLogs = NoItem
  /\ lsSettings \in AllSettingsItems
  /\ loadedLogs = << >> /\ initLogs = << >> /\ reloadedLogs = << >>
  /\ initialSetMinutes = DEFAULT_SET_MINUTES
  /\ soundVolume \in {Fin(350), Fin(2000)}
  /\ initialSoundVolume = Fin(DEFAULT_SOUND_VOLUME * 10)

SaveSetMinutes ==
  /\ \E minutes \in SavedMinutes :
       lsSettings' = saveSetMinutes(lsSettings, minutes)
  /\ lastOp' = "saveSetMinutes"
  /\ UNCHANGED <<timerVars, editVars, soundVars, cmIn, cmOut, alIn, alOut,
                 blockIn, blockOut, lsLogs, loadedLogs, initLogs,
                 reloadedLogs, initialSetMinutes>>

SaveSoundType ==
  /\ \E soundType \in SavedSoundTypes :
       lsSettings' = saveSoundType(lsSettings, soundType)
  /\ lastOp' = "saveSoundType"
  /\ UNCHANGED <<timerVars, editVars, soundVars, cmIn, cmOut, alIn, alOut,
                 blockIn, blockOut, lsLogs, loadedLogs, initLogs,
                 reloadedLogs, initialSetMinutes>>

NextSettings ==
  \/ SaveSetMinutes
  \/ SaveSoundVolume
  \/ SaveSoundType

SpecSettings == InitSettings /\ [][NextSettings]_vars

\* --------------------------------------------------- clampMinutes on its own
ClampInputs ==
  {Fin(x) : x \in (-(ClampSpan * 10)) .. (ClampSpan * 10)}
  \cup {Fin(x) : x \in ((MAX_MINUTES - ClampSpan) * 10) .. ((MAX_MINUTES + ClampSpan) * 10)}
  \cup {NaN, PosInf, NegInf}

InitClamp ==
  /\ InitTimer
  /\ cmIn \in ClampInputs
  /\ cmOut = 0
  /\ LanesIdle
  /\ StorageIdle
  /\ EditIdle
  /\ BlockIdle
  /\ SoundIdle

CallClampMinutes ==
  /\ lastOp = "init"
  /\ cmOut' = clampMinutes(cmIn)
  /\ lastOp' = "clampMinutes"
  /\ UNCHANGED <<timerVars, editVars, soundVars, blockIn, blockOut, cmIn, alIn, alOut, storageVars>>

NextClamp == CallClampMinutes

SpecClamp == InitClamp /\ [][NextClamp]_vars

\* ---------------------------------------------------- assignLanes on its own
\* the part of a TimeLog that assignLanes reads, plus the id; id i is the
\* record at position i of the input
Intervals == {iv \in (0 .. LaneSpan) \X (0 .. LaneSpan) : iv[1] <= iv[2]}
LaneRecords(f) ==
  [i \in DOMAIN f |-> [id |-> i, startedAt |-> f[i][1], endedAt |-> f[i][2]]]

InitLanes ==
  /\ InitTimer
  /\ ClampIdle
  /\ \E n \in 0 .. MaxRecs : \E f \in [1 .. n -> Intervals] : alIn = LaneRecords(f)
  /\ alOut = [logs |-> << >>, laneCount |-> 0]
  /\ StorageIdle
  /\ EditIdle
  /\ BlockIdle
  /\ SoundIdle

CallAssignLanes ==
  /\ lastOp = "init"
  /\ alOut' = assignLanes(alIn)
  /\ lastOp' = "assignLanes"
  /\ UNCHANGED <<timerVars, editVars, soundVars, blockIn, blockOut, cmIn, cmOut, alIn, storageVars>>

NextLanes == CallAssignLanes

SpecLanes == InitLanes /\ [][NextLanes]_vars

\* -------------------------------------------------- lib/storage.ts on its own
\* a well-typed entry; entry 1 ends after entry 2
GoodEntry(i) ==
  [t |-> "object",
   f |-> [id |-> Str(IF i = 1 THEN "a" ELSE "b"), task |-> Str("A"),
          plannedMinutes |-> Num(Fin(250)), actualSeconds |-> Num(Fin(6000)),
          startedAt |-> Str(IsoTimes[IF i = 1 THEN 2 ELSE 1]),
          endedAt |-> Str(IsoTimes[IF i = 1 THEN 3 ELSE 2]),
          dateKey |-> Str("2026-02-15")]]

\* what a property may hold instead of a value of its type
WrongValues(k) ==
  {Undefined, Null, IF k \in NumberFields THEN Str("25") ELSE Num(Fin(10))}

StoredEntries ==
  {GoodEntry(1), GoodEntry(2)}
  \cup UNION {{[GoodEntry(1) EXCEPT !.f[k] = w] : w \in WrongValues(k)}
                : k \in FieldNames}
  \cup {[GoodEntry(1) EXCEPT !.f[k] = Num(Overflow)] : k \in NumberFields}
  \cup {[t |-> "null", f |-> NoFields], [t |-> "number", f |-> NoFields]}

NonArrayItems ==
  {NoItem, EmptyItem, BadItem}
  \cup {JsonItem([t |-> t, items |-> << >>]) : t \in {"null", "number", "string", "object"}}

SettingsItems ==
  {NoSettings,
   [kind |-> "empty", val |-> SettingsVal("null", Undefined)],
   [kind |-> "unparsable", val |-> SettingsVal("null", Undefined)]}
  \cup {JsonItem(SettingsVal(t, Undefined)) : t \in {"null", "number", "string", "array"}}
  \cup {JsonItem(SettingsVal("object", sm)) :
          sm \in {Undefined, Null, Bool, Str("40"), Num(Overflow),
                  Num(Fin(400)), Num(Fin(-50)), Num(Fin(244)), Num(Fin(9990))}}

InitStorage ==
  /\ InitTimer
  /\ ClampIdle
  /\ LanesIdle
  /\ \/ /\ \/ lsLogs \in NonArrayItems
            \/ \E n \in 0 .. MaxStored : \E items \in [1 .. n -> StoredEntries] :
                 lsLogs = JsonItem(ArrayOf(items))
         /\ lsSettings = NoSettings
     \/ /\ lsLogs = NoItem
        /\ lsSettings \in SettingsItems
  /\ loadedLogs = << >> /\ initLogs = << >> /\ reloadedLogs = << >>
  /\ initialSetMinutes = DEFAULT_SET_MINUTES
  /\ EditIdle
  /\ BlockIdle
  /\ SoundIdle

\* useState(() => sortLogsByEndTime(loadLogs()))
LoadLogs ==
  /\ lastOp = "init"
  /\ loadedLogs' = loadLogs(lsLogs)
  /\ initLogs' = sortLogsByEndTime(loadLogs(lsLogs))
  /\ lastOp' = "loadLogs"
  /\ UNCHANGED <<timerVars, editVars, soundVars, blockIn, blockOut, cmIn, cmOut, alIn, alOut, lsLogs, lsSettings,
                 reloadedLogs, initialSetMinutes>>

\* the effect on [logs] writes the state back, unmodified
SaveLogs ==
  /\ lastOp = "loadLogs"
  /\ lsLogs' = saveLogs(initLogs)
  /\ lastOp' = "saveLogs"
  /\ UNCHANGED <<timerVars, editVars, soundVars, blockIn, blockOut, cmIn, cmOut, alIn, alOut, lsSettings, loadedLogs,
                 initLogs, reloadedLogs, initialSetMinutes>>

\* the next launch
ReloadLogs ==
  /\ lastOp = "saveLogs"
  /\ reloadedLogs' = sortLogsByEndTime(loadLogs(lsLogs))
  /\ lastOp' = "reloadLogs"
  /\ UNCHANGED <<timerVars, editVars, soundVars, blockIn, blockOut, cmIn, cmOut, alIn, alOut, lsLogs, lsSettings,
                 loadedLogs, initLogs, initialSetMinutes>>

LoadSetMinutes ==
  /\ lastOp = "init"
  /\ initialSetMinutes' = loadSetMinutes(lsSettings)
  /\ lastOp' = "loadSetMinutes"
  /\ UNCHANGED <<timerVars, editVars, soundVars, blockIn, blockOut, cmIn, cmOut, alIn, alOut, lsLogs, lsSettings,
                 loadedLogs, initLogs, reloadedLogs>>

NextStorage ==
  \/ LoadLogs
  \/ SaveLogs
  \/ ReloadLogs
  \/ LoadSetMinutes

SpecStorage == InitStorage /\ [][NextStorage]_vars

\* --------------------------------------------- a launch shortly before midnight
\* the launch is 40 seconds before the local midnight at which day 0 begins
LaunchAt == -(40 * UnitsPerSec)

\* the record found at launch: a minute of work that ended two minutes before
DayLog == EditLog(LaunchAt - 3 * MinuteUnits, LaunchAt - 2 * MinuteUnits)

\* the launch finds no record or the record DayLog
InitDay ==
  /\ \E storedLogs \in {<< >>, <<DayLog>>} :
       /\ now = LaunchAt
       /\ status = "idle"
       /\ mode = "work"
       /\ setMinutes = DEFAULT_MINUTES
       /\ remainingSeconds = DEFAULT_MINUTES * SEC_PER_MIN
       /\ breakSuggestionSeconds = 5 * SEC_PER_MIN
       /\ taskInput = ""
       /\ logs = storedLogs
       /\ sessionRef = NoSession
       /\ deadlineRef = NoDeadline
       /\ notified = << >>
       /\ nextId = 1
       /\ lastOp = "init"
       /\ fin = "none"
       /\ sessPaused = FALSE
       /\ snap = NoSnap
  /\ ClampIdle
  /\ LanesIdle
  /\ EditIdle
  /\ BlockIdle
  /\ SoundIdle
  /\ Mounted

\* time passes until midnight has passed
PassMidnight == now < 0 /\ Advance

\* a session is started while the table is empty, so that the table holds one
\* row at a time: the day of a record is computed from that record alone
StartDay == logs = << >> /\ Start

\* sessions run across midnight and are completed by hand, rows are edited
\* and saved
NextDay ==
  \/ PassMidnight
  \/ StartDay
  \/ Complete
  \/ StartEditingLog
  \/ EditStartedAtChange
  \/ EditEndedAtChange
  \/ SaveLog

SpecDay == InitDay /\ [][NextDay]_vars

\* ----------------------------------------- end times edited in a longer history
\* the launch finds old records; the end time of a row is edited and saved,
\* rows are deleted
NextOrder ==
  \/ StartEditingLog
  \/ EditEndedAtChange
  \/ SaveLog
  \/ DeleteLog

SpecOrder == InitHistory /\ [][NextOrder]_vars

\* ------------------------------------------------ the timer with late ticks
\* the timer of Spec with interval callbacks that arrive after status has left
\* running; the task input stays empty
NextTick ==
  \/ Advance
  \/ Tick
  \/ StaleTick
  \/ Start
  \/ Pause
  \/ Resume
  \/ Reset
  \/ SkipBreak
  \/ Complete
  \/ ApplyMinutes

SpecTick == Init /\ [][NextTick]_vars

\* ------------------------------------------------- a session left to itself
\* The clock of the model stops at MaxNow.  A countdown is begun only if its
\* deadline is an instant the clock still passes whatever jumps it takes: the
\* clock goes on as long as its shortest jump fits.
Fits(deadline) == \E d \in Jumps : deadline + d <= MaxNow + 1

StartLive ==
  /\ (mode = "work" /\ status \in {"idle", "done"} /\ setMinutes > 0)
        => Fits(now + setMinutes * SEC_PER_MIN * UnitsPerSec)
  /\ Start

ResumeLive ==
  /\ status = "paused" => Fits(now + remainingSeconds * UnitsPerSec)
  /\ Resume

NextLive ==
  \/ Advance
  \/ Tick
  \/ StartLive
  \/ Pause
  \/ ResumeLive
  \/ ApplyMinutes

\* the interval of the [status] effect calls back every 250 ms while status is
\* running, and time passes
SpecLive ==
  Init /\ [][NextLive]_vars /\ WF_vars(Tick) /\ WF_vars(Advance)

\* ------------------------------------------- the timer and the history table
\* settings items a launch may find: none, 40 minutes, minutes as a string
PersistSettings ==
  {NoSettings, JsonItem(SettingsVal("object", Num(Fin(400)))),
   JsonItem(SettingsVal("object", Str("40")))}

\* the launch finds one of these items and at most one old record
InitPersist ==
  /\ \E raw \in PersistSettings, n \in 0 .. 1 :
       /\ InitLaunch([k \in 1 .. n |-> OldLog(k)], loadSetMinutes(raw))
       /\ ClampIdle
       /\ LanesIdle
       /\ EditIdle
       /\ BlockIdle
       /\ SoundIdle
       /\ MountedOn(raw)

\* sessions are started, paused, resumed, completed and reset, minutes are
\* configured, rows are edited and deleted
NextPersist ==
  \/ Start
  \/ Pause
  \/ Resume
  \/ Complete
  \/ Reset
  \/ ApplyMinutes
  \/ StartEditingLog
  \/ SaveLog
  \/ DeleteLog

SpecPersist == InitPersist /\ [][NextPersist]_vars

\* ===================================================================== claims
Abs(x) == IF x < 0 THEN -x ELSE x
Appended(old, new) == Len(new) = Len(old) + 1 /\ SubSeq(new, 1, Len(old)) = old

\* C1: a session started with planned minutes M that runs, without being
\* paused, to its natural timeout writes exactly one log record, with
\* actualSeconds = M*60 and endedAt - startedAt = M*60 seconds, however late
\* the callback that observes remaining = 0 runs.  (Whether paused or not,
\* the record carries actualSeconds = M*60 and endedAt = the deadline.)
C1_TimeoutRecordsPlannedDuration ==
  [][fin' = "timeout" =>
       LET M == sessionRef.plannedMinutes
           rec == Last(logs')
       IN /\ Appended(logs, logs')
          /\ rec.plannedMinutes = M
          /\ rec.startedAt = sessionRef.startedAt
          /\ rec.actualSeconds = M * SEC_PER_MIN
          /\ deadlineRef # NoDeadline => rec.endedAt = deadlineRef
          /\ sessionRef' = NoSession
          /\ ~sessPaused =>
               rec.endedAt - rec.startedAt = M * SEC_PER_MIN * UnitsPerSec]_vars

\* a timeout observed late: the clock is past the recorded end
C1_Witness ==
  /\ fin = "timeout" /\ lastOp = "tick" /\ ~sessPaused
  /\ Len(logs) = 1
  /\ now > logs[1].endedAt
  /\ logs[1].endedAt - logs[1].startedAt = logs[1].plannedMinutes * SEC_PER_MIN * UnitsPerSec

\* C2: onComplete on a work session that is running or paused writes exactly
\* one log record with actualSeconds = (plannedMinutes*60 - remainingSeconds)
\* clamped to [1, plannedMinutes*60] and endedAt = now.
C2_ManualCompletionRecord ==
  [][(lastOp' = "complete" /\ mode = "work" /\ status \in {"running", "paused"}) =>
       LET total == sessionRef.plannedMinutes * SEC_PER_MIN
           t == total - remainingSeconds
           rec == Last(logs')
       IN /\ sessionRef # NoSession
          /\ fin' = "manual"
          /\ Appended(logs, logs')
          /\ rec.actualSeconds = Max(1, Min(total, t))
          /\ rec.actualSeconds >= 1 /\ rec.actualSeconds <= total
          /\ rec.endedAt = now]_vars

\* completed at once: 0 seconds elapsed are recorded as 1
C2_Witness ==
  /\ lastOp = "complete" /\ fin = "manual"
  /\ Len(logs) = 1
  /\ logs[1].endedAt = logs[1].startedAt
  /\ logs[1].actualSeconds = 1

\* C3: the notification+sound side effect is invoked exactly once, with the
\* session's (task, plannedMinutes), by every step that ends a session by
\* natural timeout, and by no other step (manual completion, reset, ...).
C3_NotifyOnlyOnTimeout ==
  [][/\ fin' = "timeout" =>
          notified' = Append(notified, [task |-> sessionRef.task,
                                        plannedMinutes |-> sessionRef.plannedMinutes])
     /\ fin' # "timeout" => notified' = notified]_vars

C3_Witness ==
  /\ fin = "timeout"
  /\ Len(notified) = 1
  /\ notified[1] = [task |-> "A", plannedMinutes |-> 1]

\* C4: resume() of a paused countdown whose snapshot is r > 0 leaves it
\* running with remaining seconds r = the value pause() snapshotted, and the
\* new deadline yields exactly r, whatever the clock shows by then; with
\* r = 0 nothing is left and the countdown ends in the same step.
C4_ResumeKeepsRemaining ==
  [][(lastOp' = "resume" /\ status = "paused") =>
       /\ snap.rem = remainingSeconds
       /\ remainingSeconds > 0 =>
            /\ status' = "running"
            /\ remainingSeconds' = snap.rem
            /\ deadlineRef' # NoDeadline
            /\ Max(0, MathCeilDiv(deadlineRef' - now', UnitsPerSec)) = snap.rem
       /\ remainingSeconds = 0 => status' = "idle"]_vars

\* resumed after a pause that lasted a while
C4_Witness ==
  /\ lastOp = "resume" /\ status = "running"
  /\ snap.rem > 0 /\ snap.at < now
  /\ remainingSeconds = snap.rem

C6_ClampInto1To180 ==
  (lastOp = "clampMinutes" /\ cmIn.kind = "finite") =>
    /\ cmOut \in 1 .. 180
    /\ cmIn.tenths < 10 => cmOut = 1
    /\ cmIn.tenths > 1800 => cmOut = 180
    /\ \A k \in 1 .. 180 :
         Abs(cmOut * 10 - cmIn.tenths) <= Abs(k * 10 - cmIn.tenths)

\* C7: start() invoked while status is running, or while planned minutes is
\* 0, changes nothing: status, remaining seconds, session descriptor,
\* deadline and log collection are unchanged.
C7_StartNoOp ==
  [][(lastOp' = "start" /\ (status = "running" \/ setMinutes = 0)) =>
       UNCHANGED <<status, remainingSeconds, sessionRef, deadlineRef, logs>>]_vars

\* C8: applyMinutes invoked while status is running or paused is ignored:
\* the planned minutes and the remaining seconds keep their values.
C8_ConfigureIgnoredWhileActive ==
  [][(lastOp' = "applyMinutes" /\ status \in {"running", "paused"}) =>
       UNCHANGED <<setMinutes, remainingSeconds>>]_vars

\* C9: pause() when status is not running, resume() when status is not
\* paused and completeManually() when status is neither running nor paused
\* leave status, remaining seconds, session descriptor, deadline and log
\* collection unchanged.
C9_InvalidStateNoOps ==
  [][(\/ lastOp' = "pause" /\ status # "running"
      \/ lastOp' = "resume" /\ status # "paused"
      \/ lastOp' = "complete" /\ status \notin {"running", "paused"}) =>
       UNCHANGED <<status, remainingSeconds, sessionRef, deadlineRef, logs>>]_vars

\* pause() arrived while a session was idle in break mode and did nothing
C9_Witness ==
  /\ lastOp = "pause"
  /\ status = "idle" /\ mode = "break"
  /\ Len(logs) = 1

\* C10: start() invoked while status is paused does not take the session
\* back to running; status, deadline and remaining seconds are unchanged.
C10_StartIgnoredWhilePaused ==
  [][(lastOp' = "start" /\ status = "paused") =>
       UNCHANGED <<status, deadlineRef, remainingSeconds>>]_vars

\* C11: reset() from any status discards the session descriptor and the
\* deadline, sets status to idle and remaining seconds to the configured
\* planned minutes * 60, and writes no log record.
C11_ResetDiscardsSession ==
  [][lastOp' = "reset" =>
       /\ sessionRef' = NoSession
       /\ deadlineRef' = NoDeadline
       /\ status' = "idle"
       /\ remainingSeconds' = setMinutes * SEC_PER_MIN
       /\ UNCHANGED <<logs, notified, setMinutes>>]_vars

\* reset() arrived after a session had been started and paused; nothing was
\* recorded
C11_Witness ==
  /\ lastOp = "reset"
  /\ sessPaused /\ now > 0
  /\ sessionRef = NoSession /\ status = "idle"
  /\ logs = << >>

\* C12: both ways of finalizing a session end in status done: the step in
\* which remaining reaches 0 while running, and manual completion from
\* running or paused.
C12_FinalizationEndsInDone ==
  [][fin' \in {"timeout", "manual"} => status' = "done"]_vars

\* C20: when a session finalizes, its log record is appended at the end of
\* the log collection and the records already present keep their places.
C20_NewRecordAppendedLast ==
  [][fin' \in {"timeout", "manual"} =>
       /\ Len(logs') = Len(logs) + 1
       /\ \A i \in 1 .. Len(logs) : logs'[i] = logs[i]
       /\ logs'[Len(logs')].id = nextId
       /\ logs'[Len(logs')].startedAt = sessionRef.startedAt]_vars

\* a session timed out in a launch that had found two old records
C20_Witness ==
  /\ fin = "timeout"
  /\ Len(logs) = 3
  /\ logs[1] = OldLog(1) /\ logs[2] = OldLog(2)
  /\ logs[3].id = 1 /\ logs[3].task = "A"

\* ------------------------------------------------------ claims on assignLanes
\* two records overlap: each starts strictly before the other ends
Overlap(a, b) == a.startedAt < b.endedAt /\ b.startedAt < a.endedAt
LanesDone == lastOp = "assignLanes"
LaneOut == alOut.logs
Positions == 1 .. Len(LaneOut)

\* C13: assignLanes never gives the same lane to two records whose intervals
\* overlap, for every list of records with endedAt >= startedAt; two
\* overlapping records yield laneCount = 2 and distinct lanes.
C13_OverlappingRecordsDistinctLanes ==
  LanesDone =>
    /\ Len(LaneOut) = Len(alIn)
    /\ \A i, j \in Positions :
         (i # j /\ Overlap(LaneOut[i], LaneOut[j])) => LaneOut[i].lane # LaneOut[j].lane
    /\ (Len(alIn) = 2 /\ Overlap(alIn[1], alIn[2])) =>
         /\ alOut.laneCount = 2
         /\ LaneOut[1].lane # LaneOut[2].lane

\* the second record lies inside the first
C13_Witness ==
  /\ LanesDone
  /\ alIn = <<[id |-> 1, startedAt |-> 0, endedAt |-> 3],
              [id |-> 2, startedAt |-> 1, endedAt |-> 2]>>
  /\ alOut.laneCount = 2
  /\ LaneOut[1].lane = 0 /\ LaneOut[2].lane = 1

\* the largest number of records of the input that overlap one another
MaxOverlapping ==
  LET Cliques == {S \in SUBSET (1 .. Len(alIn)) :
                    \A i, j \in S : i # j => Overlap(alIn[i], alIn[j])}
  IN CHOOSE n \in 0 .. Len(alIn) :
       /\ \E S \in Cliques : Cardinality(S) = n
       /\ \A S \in Cliques : Cardinality(S) <= n

\* the largest number of records of the input open at one instant
MaxOpen ==
  LET OpenAt(t) == {i \in 1 .. Len(alIn) :
                      alIn[i].startedAt <= t /\ t < alIn[i].endedAt}
  IN CHOOSE n \in 0 .. Len(alIn) :
       /\ \E t \in 0 .. LaneSpan : Cardinality(OpenAt(t)) = n
       /\ \A t \in 0 .. LaneSpan : Cardinality(OpenAt(t)) <= n

\* C14 as claimed: for every non-empty input the laneCount is minimal, equal
\* to the largest number of records that overlap one another.
C14_LaneCountMinimal ==
  (LanesDone /\ alIn # << >>) => alOut.laneCount = MaxOverlapping

\* C14 as amended: for every non-empty input of records that last some time
\* (endedAt > startedAt) the laneCount equals the largest number of records
\* open at one instant.
C14_LaneCountMinimalPositive ==
  (LanesDone /\ alIn # << >>
     /\ \A i \in 1 .. Len(alIn) : alIn[i].startedAt < alIn[i].endedAt) =>
    /\ alOut.laneCount = MaxOpen
    /\ alOut.laneCount = MaxOverlapping

\* A 0-4, B 1-2, C 3-4: A in lane 0, B in lane 1, C in B's lane again
C14_Witness ==
  /\ LanesDone
  /\ alIn = <<[id |-> 1, startedAt |-> 0, endedAt |-> 4],
              [id |-> 2, startedAt |-> 1, endedAt |-> 2],
              [id |-> 3, startedAt |-> 3, endedAt |-> 4]>>
  /\ alOut.laneCount = 2
  /\ LaneOut[1].lane = 0 /\ LaneOut[2].lane = 1 /\ LaneOut[3].lane = 1

\* the lanes in use before position k, and the end time of lane L there
LanesBefore(k) == {LaneOut[j].lane : j \in 1 .. (k - 1)}
LaneEndBefore(L, k) ==
  LET last == CHOOSE j \in 1 .. (k - 1) :
                /\ LaneOut[j].lane = L
                /\ \A m \in 1 .. (k - 1) : LaneOut[m].lane = L => m <= j
  IN LaneOut[last].endedAt

\* C15: the returned list is the input sorted by startedAt (records with
\* equal starts in input order), and each record has the lowest-indexed lane
\* whose end time, at that point, is <= the record's start; a new lane is
\* opened only when there is none.
C15_GreedyLowestFreeLane ==
  LanesDone =>
    /\ Len(LaneOut) = Len(alIn)
    /\ {LaneOut[k].id : k \in Positions} = 1 .. Len(alIn)
    /\ \A k \in Positions :
         /\ LaneOut[k].startedAt = alIn[LaneOut[k].id].startedAt
         /\ LaneOut[k].endedAt = alIn[LaneOut[k].id].endedAt
    /\ \A i, j \in Positions :
         i < j => \/ LaneOut[i].startedAt < LaneOut[j].startedAt
                  \/ /\ LaneOut[i].startedAt = LaneOut[j].startedAt
                     /\ LaneOut[i].id < LaneOut[j].id
    /\ \A k \in Positions :
         LET free == {L \in LanesBefore(k) :
                        LaneEndBefore(L, k) <= LaneOut[k].startedAt}
         IN IF free = {}
            THEN LaneOut[k].lane = Cardinality(LanesBefore(k))
            ELSE /\ LaneOut[k].lane \in free
                 /\ \A L \in free : LaneOut[k].lane <= L

\* given out of order; lanes 0 and 1 are both free for the last record
C15_Witness ==
  /\ LanesDone
  /\ alIn = <<[id |-> 1, startedAt |-> 2, endedAt |-> 3],
              [id |-> 2, startedAt |-> 0, endedAt |-> 1],
              [id |-> 3, startedAt |-> 0, endedAt |-> 2]>>
  /\ LaneOut = <<[id |-> 2, startedAt |-> 0, endedAt |-> 1, lane |-> 0],
                 [id |-> 3, startedAt |-> 0, endedAt |-> 2, lane |-> 1],
                 [id |-> 1, startedAt |-> 2, endedAt |-> 3, lane |-> 0]>>

AllInLaneZero ==
  /\ alOut.laneCount = 1
  /\ \A k \in Positions : LaneOut[k].lane = 0

\* C16 as claimed: records that are pairwise non-overlapping and sequential
\* (one ends no later than the other starts) are all put in lane 0 and
\* laneCount = 1.
C16_SequentialRecordsOneLane ==
  (LanesDone /\ \A i, j \in 1 .. Len(alIn) :
                  i # j => \/ alIn[i].endedAt <= alIn[j].startedAt
                           \/ alIn[j].endedAt <= alIn[i].startedAt) =>
    AllInLaneZero

\* C16 as amended: records that, in the order assignLanes processes them
\* (ascending startedAt, equal starts in input order), each end no later than
\* the next one starts are all put in lane 0 and laneCount = 1.
C16_SequentialInOrderOneLane ==
  (LanesDone /\ \A k \in Positions :
                  k > 1 => LaneOut[k - 1].endedAt <= LaneOut[k].startedAt) =>
    AllInLaneZero

\* three records, each starting the instant the one before ends
C16_Witness ==
  /\ LanesDone
  /\ alIn = <<[id |-> 1, startedAt |-> 1, endedAt |-> 2],
              [id |-> 2, startedAt |-> 0, endedAt |-> 1],
              [id |-> 3, startedAt |-> 2, endedAt |-> 3]>>
  /\ AllInLaneZero

\* C17: assignLanes on no records returns laneCount = 1 and an empty list;
\* in general laneCount = max(1, number of lanes created).
C17_EmptyInputOneLane ==
  LanesDone =>
    /\ alIn = << >> => (alOut.laneCount = 1 /\ LaneOut = << >>)
    /\ alOut.laneCount = Max(1, Cardinality({LaneOut[k].lane : k \in Positions}))

C17_Witness ==
  /\ LanesDone
  /\ alIn = << >>
  /\ alOut = [logs |-> << >>, laneCount |-> 1]

\* ---------------------------------------------------- claims on lib/storage.ts
\* C18: loading the log collection, saving it back without modification and
\* loading again yields a collection identical to the first load (same
\* records, same order), for every persisted content.
C18_LoadSaveLoadStable ==
  lastOp = "reloadLogs" => reloadedLogs = initLogs

\* the elements of the persisted array, and those among them that are
\* objects with every field of its type
StoredItems == IF lsLogs.kind = "json" /\ lsLogs.val.t = "array"
               THEN lsLogs.val.items ELSE << >>
IsWellTyped(te) ==
  /\ te.t = "object"
  /\ \A k \in FieldNames \ NumberFields : te.f[k].t = "string"
  /\ \A k \in NumberFields : te.f[k].t = "number"

\* C19: loading never fails on bad persisted data: missing, unparsable or
\* non-array log data gives an empty collection, missing or malformed
\* settings give 25 minutes, and of a persisted array exactly the well-typed
\* entries are kept, in their order.
C19_DefensiveLoad ==
  /\ lastOp = "loadLogs" =>
       /\ (lsLogs.kind # "json" \/ lsLogs.val.t # "array") => loadedLogs = << >>
       /\ Len(loadedLogs) = Len(SelectSeq(StoredItems, IsWellTyped))
       /\ \A i \in 1 .. Len(loadedLogs) :
            loadedLogs[i].f.id = SelectSeq(StoredItems, IsWellTyped)[i].f.id
  /\ lastOp = "loadSetMinutes" =>
       /\ initialSetMinutes \in MIN_MINUTES .. MAX_MINUTES
       /\ (\/ lsSettings.kind # "json"
           \/ lsSettings.val.t # "object"
           \/ lsSettings.val.setMinutes.t # "number"
           \/ lsSettings.val.setMinutes.n.kind # "finite") => initialSetMinutes = 25

\* ---------------------------------------------------------------------------
\* the row of the history table that the form belongs to, before and after a
\* step
EditedBefore == {i \in DOMAIN logs : logs[i].id = editingLogId}
SaveStep == lastOp' = "saveLog" /\ editingLogId # NoLogId
FormValid == editStartedAtInput.valid /\ editEndedAtInput.valid

\* C21: after onSaveLog the saved record satisfies endedAt = startedAt +
\* actualSeconds; editing the duration in the form recomputes the end as start
\* plus duration; editing the end recomputes the duration as end minus start.
C21_EditKeepsTimesConsistent ==
  [][/\ SaveStep =>
          \A i \in EditedBefore :
            logs'[i].endedAt =
              logs'[i].startedAt + logs'[i].actualSeconds * UnitsPerSec
     /\ (lastOp' = "editDurationChange" /\ editStartedAtInput'.valid) =>
          /\ editEndedAtInput'.valid
          /\ inputTime(editEndedAtInput') =
               inputTime(editStartedAtInput') + editDurationMinutes' * MinuteUnits
     /\ (lastOp' = "editEndedAtChange" /\ FormValid') =>
          editDurationMinutes' * MinuteUnits =
            inputTime(editEndedAtInput') - inputTime(editStartedAtInput')
    ]_vars

\* C22: editing the start time in the form leaves the end time unchanged and
\* recomputes the duration as end minus start.
C22_StartEditKeepsEnd ==
  [][lastOp' = "editStartedAtChange" =>
       /\ editEndedAtInput' = editEndedAtInput
       /\ FormValid' =>
            editDurationMinutes' * MinuteUnits =
              inputTime(editEndedAtInput') - inputTime(editStartedAtInput')
    ]_vars

\* the start of an open row was edited and the duration now spans minutes
C22_Witness ==
  /\ lastOp = "editStartedAtChange"
  /\ editingLogId # NoLogId
  /\ FormValid
  /\ editDurationMinutes = EditSpan

\* logs without the record at position i
WithoutRow(i) ==
  [j \in 1 .. (Len(logs) - 1) |-> IF j < i THEN logs[j] ELSE logs[j + 1]]

\* C23: deleting a record removes exactly the record with the given id and
\* leaves the others unchanged, and only when the confirmation is accepted;
\* when it is cancelled the collection is unchanged.
C23_DeleteRemovesExactlyOne ==
  [][/\ lastOp' = "deleteLog" =>
          \E i \in DOMAIN logs :
            /\ logs' = WithoutRow(i)
            /\ \A j \in DOMAIN logs' : logs'[j].id # logs[i].id
     /\ lastOp' = "deleteLogCancelled" => logs' = logs
    ]_vars

\* a confirmed deletion that left two records behind
C23_Witness ==
  /\ lastOp = "deleteLog"
  /\ Len(logs) = 2

\* C24: in every reachable state exactly one of the Start, Pause and Resume
\* controls is offered (Start in idle/done, Pause in running, Resume in
\* paused), and the Complete control is offered exactly when a work session is
\* running or paused.
C24_OneMainControl ==
  /\ Cardinality({c \in {"start", "pause", "resume"} : Offered(c)}) = 1
  /\ status \in {"idle", "done"} => Offered("start")
  /\ status = "running" => Offered("pause")
  /\ status = "paused" => Offered("resume")
  /\ Offered("complete") <=> (mode = "work" /\ status \in {"running", "paused"})

\* a break is counting down: Pause is offered, Complete is not
C24_Witness ==
  /\ mode = "break" /\ status = "running"
  /\ Offered("pause") /\ ~Offered("complete")

\* C27: in every reachable state the deadline is set if and only if status is
\* running.
C27_DeadlineIffRunning ==
  (deadlineRef # NoDeadline) <=> (status = "running")

\* C28: in every reachable state a session descriptor is held if and only if
\* a work session is running or paused.
C28_SessionIffWorkActive ==
  (sessionRef # NoSession) <=> (mode = "work" /\ status \in {"running", "paused"})

\* the time of day of an instant, in seconds since local midnight
SecondOfDay(instant) == (instant % DayUnits) \div UnitsPerSec

C26_SoundVolumeRoundTrip ==
  lastOp = "loadSoundVolume" => initialSoundVolume = soundVolume

\* start() creates a session in this step
CreatesSession ==
  /\ lastOp' = "start"
  /\ mode = "work" /\ status \in {"idle", "done"} /\ setMinutes > 0

\* C29: the log record written at finalization carries the startedAt,
\* plannedMinutes and task captured when start() created the session; they
\* are unchanged by pause/resume cycles and by changes made to the task input
\* or to the minutes setting after the start.
C29_RecordCarriesCapturedValues ==
  [][/\ CreatesSession =>
          sessionRef' = [startedAt |-> now, plannedMinutes |-> setMinutes,
                         task |-> TaskOf(taskInput)]
     /\ (~CreatesSession /\ sessionRef # NoSession /\ sessionRef' # NoSession) =>
          sessionRef' = sessionRef
     /\ fin' # "none" =>
          /\ Len(logs') = Len(logs) + 1
          /\ Last(logs').startedAt = sessionRef.startedAt
          /\ Last(logs').plannedMinutes = sessionRef.plannedMinutes
          /\ Last(logs').task = sessionRef.task
    ]_vars

\* a session that was paused, and whose task input and minutes setting were
\* changed while it lasted, has been completed
C29_Witness ==
  /\ fin = "manual"
  /\ sessPaused
  /\ Last(logs).plannedMinutes # setMinutes
  /\ Last(logs).task # TaskOf(taskInput)

\* C30: once every operation has been processed, the persisted log collection
\* equals the in-memory log collection and the persisted planned minutes equal
\* the configured planned minutes, after any sequence of start, pause, resume,
\* completion, reset, configure, edit and delete operations.
C30_PersistedEqualsInMemory ==
  /\ lsLogs = saveLogs(JsObjects(logs))
  /\ loadLogs(lsLogs) = JsObjects(logs)
  /\ loadSetMinutes(lsSettings) = setMinutes

\* a session's record was edited and saved, with minutes other than the
\* default configured
C30_Witness ==
  /\ lastOp = "saveLog"
  /\ \E i \in DOMAIN logs : logs[i].id > 0 /\ logs[i].actualSeconds = SEC_PER_MIN
  /\ setMinutes \notin {DEFAULT_MINUTES, loadSetMinutes(JsonItem(SettingsVal("object", Num(Fin(400)))))}

\* C31: a reconciliation tick that fires when status is not running changes
\* nothing: remaining seconds, status, deadline, session descriptor and log
\* collection are unchanged.
C31_StaleTickChangesNothing ==
  [][lastOp' = "staleTick" =>
       UNCHANGED <<remainingSeconds, status, mode, deadlineRef, sessionRef,
                   logs, notified, lsLogs>>]_vars

\* a late tick was delivered to a paused session after its deadline had passed
C31_Witness ==
  /\ lastOp = "staleTick"
  /\ status = "paused"
  /\ sessionRef # NoSession
  /\ now >= sessionRef.startedAt + sessionRef.plannedMinutes * SEC_PER_MIN * UnitsPerSec

\* the local calendar day in which an instant lies
LocalDay(instant) ==
  CHOOSE d \in -2 .. 2 : d * DayUnits <= instant /\ instant < (d + 1) * DayUnits

\* C32: every record in the log collection, whether written by a session
\* finalization or rewritten by a saved edit of its start time, has dateKey
\* equal to the local calendar day of its startedAt.
C32_DateKeyIsDayOfStart ==
  \A i \in DOMAIN logs : logs[i].dateKey = LocalDay(logs[i].startedAt)

\* a saved edit has rewritten the start of a record of this launch, and the
\* record begins on the day before midnight and ends on the day after it
C32_Witness ==
  /\ lastOp = "saveLog"
  /\ \E i \in DOMAIN logs :
       /\ logs[i].id > 0
       /\ logs[i].startedAt = - MinuteUnits
       /\ LocalDay(logs[i].startedAt) = -1
       /\ LocalDay(logs[i].endedAt) = 0

\* C33: for each session created by start(), at most one log record is ever
\* written, under every interleaving of ticks (late ones included), pause,
\* resume, manual completion and reset; a session ended by reset writes none.
\* Step by step: a record is written only by a step that consumes the held
\* descriptor, it is that session's record, and only start() puts a
\* descriptor in place.
C33_OneRecordPerSession ==
  [][/\ Len(logs') \in {Len(logs), Len(logs) + 1}
     /\ SubSeq(logs', 1, Len(logs)) = logs
     /\ Len(logs') = Len(logs) + 1 =>
          /\ sessionRef # NoSession
          /\ sessionRef' = NoSession
          /\ Last(logs').startedAt = sessionRef.startedAt
     /\ (sessionRef' # NoSession /\ sessionRef' # sessionRef) => lastOp' = "start"
     /\ lastOp' = "reset" => (logs' = logs /\ sessionRef' = NoSession)
    ]_vars

\* a session was completed by hand after its deadline had passed and before a
\* tick saw it, and the late tick was then delivered
C33_Witness ==
  /\ lastOp = "staleTick"
  /\ Len(logs) = 1
  /\ notified = << >>
  /\ mode = "break"
  /\ now >= logs[1].startedAt + logs[1].plannedMinutes * SEC_PER_MIN * UnitsPerSec

\* steps that are no action of the user
SystemOps == {"tick", "advance"}

\* C34: a running session in which the reconciliation ticks keep firing and
\* the user performs no further action eventually leaves running: its
\* remaining seconds reach 0 and the session is finalized with a log record.
C34_RunningSessionEnds ==
  (/\ status = "running" /\ mode = "work" /\ sessionRef # NoSession
   /\ lastOp \in SystemOps)
    ~> (\/ lastOp \notin SystemOps
        \/ /\ fin = "timeout"
           /\ status # "running"
           /\ sessionRef = NoSession
           /\ logs # << >>)

\* C35: while a session descriptor is held, 0 <= remaining seconds <=
\* plannedMinutes*60 of that session, and remaining seconds never increase
\* from one observation to the next (across ticks, pause and resume) until
\* the session ends.
C35_RemainingBoundedAndFalling ==
  [][/\ sessionRef' # NoSession =>
          /\ 0 <= remainingSeconds'
          /\ remainingSeconds' <= sessionRef'.plannedMinutes * SEC_PER_MIN
     /\ (sessionRef # NoSession /\ sessionRef' = sessionRef) =>
          remainingSeconds' <= remainingSeconds
    ]_vars

\* C36: when a work session finalizes (by timeout or by manual completion)
\* the timer enters break mode with status idle, no deadline, and remaining
\* seconds = max(1, round(plannedMinutes*60*0.2)) of the finished session.
\* plannedMinutes*60 is a multiple of 5, so a fifth of it is a whole number.
C36_FinalizationEntersBreak ==
  [][fin' # "none" =>
       /\ mode' = "break"
       /\ status' = "idle"
       /\ deadlineRef' = NoDeadline
       /\ remainingSeconds' =
            Max(1, (sessionRef.plannedMinutes * SEC_PER_MIN) \div 5)
    ]_vars

\* a session has been finalized after the minutes setting was changed while
\* it lasted
C36_Witness ==
  /\ fin # "none"
  /\ mode = "break"
  /\ Last(logs).plannedMinutes # setMinutes
  /\ remainingSeconds = 12 * Last(logs).plannedMinutes

\* C37: a break countdown that reaches zero, or that is skipped, returns the
\* timer to work mode with status idle and remaining seconds = configured
\* minutes*60; a break never writes a log record, never invokes the
\* notification/sound side effect, and manual completion is a no-op during it.
C37_BreakReturnsToWork ==
  [][mode = "break" =>
       /\ logs' = logs
       /\ notified' = notified
       /\ lastOp' = "complete" =>
            UNCHANGED <<status, mode, remainingSeconds, deadlineRef,
                        sessionRef, setMinutes>>
       /\ (\/ lastOp' = "skipBreak"
           \/ /\ lastOp' = "tick"
              /\ deadlineRef # NoDeadline
              /\ now >= deadlineRef) => mode' = "work"
       /\ mode' = "work" =>
            /\ status' = "idle"
            /\ deadlineRef' = NoDeadline
            /\ remainingSeconds' = setMinutes' * SEC_PER_MIN
    ]_vars

\* the countdown of a break has reached zero at a tick
C37_Witness ==
  /\ lastOp = "tick"
  /\ mode = "work"
  /\ status = "idle"
  /\ fin = "none"
  /\ logs # << >>
  /\ setMinutes > 0

\* the property k of the object a settings item holds; an item that holds no
\* object has no properties
FieldOf(item, k) ==
  IF item.kind = "json" /\ item.val.t \in {"object", "array"}
  THEN item.val[k] ELSE Undefined

\* the property a save function writes
SavedField(op) ==
  CASE op = "saveSetMinutes" -> "setMinutes"
    [] op = "saveSoundVolume" -> "soundVolume"
    [] op = "saveSoundType" -> "soundType"

\* C38: saving one setting (planned minutes, sound volume or sound type)
\* leaves every other field of the persisted settings record unchanged.
C38_SaveKeepsOtherFields ==
  [][lastOp' \in {"saveSetMinutes", "saveSoundVolume", "saveSoundType"} =>
       \A k \in SettingsFields \ {SavedField(lastOp')} :
          FieldOf(lsSettings', k) = FieldOf(lsSettings, k)
    ]_vars

\* the minutes were saved into a record that holds a legacy boost, a sound
\* type the app does not know and a null volume
C38_Witness ==
  /\ lastOp = "saveSetMinutes"
  /\ FieldOf(lsSettings, "setMinutes") = Num(Fin(10))
  /\ FieldOf(lsSettings, "soundBoost") = Num(Fin(1500))
  /\ FieldOf(lsSettings, "soundType") = Str("gong")
  /\ FieldOf(lsSettings, "soundVolume") = Null

\* C39: the log collection is ordered by ascending endedAt in every reachable
\* state: it is sorted on load, each finalized session is appended with an
\* endedAt not earlier than those already present, and saved edits and
\* deletions keep the order.
C39_LogsOrderedByEnd ==
  \A i \in DOMAIN logs : \A j \in DOMAIN logs :
     i < j => logs[i].endedAt <= logs[j].endedAt

====
